---- MODULE Spec2Model ----
(***************************************************************************)
(* A model of the data layer of icon-365 (src/src/api.ts, second revision, *)
(* lines 154-609) and of the App component's loader that drives it.        *)
(*                                                                         *)
(* Strings are sequences of tokens (one token per character, except for    *)
(* fixed prefixes that the code only ever concatenates), so that split,    *)
(* endsWith, toLowerCase and the year pattern are computed, not assumed.   *)
(* localStorage is a map from the program's keys to serialised values; the *)
(* network and the storage quota are the environment.                      *)
(***************************************************************************)
EXTENDS Integers, Sequences, FiniteSets, TLC

(***************************************************************************)
(* Bounds of the model.                                                    *)
(***************************************************************************)
\* Number of times the clock may be advanced in one behaviour.
MaxTicks == 2
\* Longest run of padding commits at the head of a commit listing.
MaxPad == 20
\* Number of commit details that may fail in one fetchRecentChanges.
MaxDetailFailures == 1
MaxLoads == 3
MaxResults == 4
\* Calendar year of the instant now = 0, and its day within that year.
EpochYear == 2026
EpochDay == 360

(***************************************************************************)
(* Program constants.                                                      *)
(***************************************************************************)
CACHE_TTL == 7 * 24 * 60 * 60 * 1000
MaxRetries == 3
\* commits.slice(0, 20)
COMMIT_DETAIL_LIMIT == 20
RAW_CONTENT_BASE == <<"https://raw.githubusercontent.com/loryanstrant/MicrosoftCloudLogos/main/">>
DAY_MS == 24 * 60 * 60 * 1000

\* JavaScript's undefined for an optional string, the null a header lookup
\* returns, and the null of an object reference.
Undefined == "undefined"
NullString == "null"
Null == [null |-> TRUE]

(***************************************************************************)
(* Strings.                                                                *)
(***************************************************************************)
UPPER == <<"A","B","C","D","E","F","G","H","I","J","K","L","M","N","O","P","Q","R","S","T","U","V","W","X","Y","Z">>
LOWER == <<"a","b","c","d","e","f","g","h","i","j","k","l","m","n","o","p","q","r","s","t","u","v","w","x","y","z">>
DIGITS == <<"0","1","2","3","4","5","6","7","8","9">>

ToLowerChar(c) ==
    IF \E i \in 1..Len(UPPER) : UPPER[i] = c
    THEN LOWER[CHOOSE i \in 1..Len(UPPER) : UPPER[i] = c]
    ELSE c

ToLowerCase(s) == [i \in 1..Len(s) |-> ToLowerChar(s[i])]

IsDigit(c) == \E i \in 1..Len(DIGITS) : DIGITS[i] = c

DigitValue(c) == (CHOOSE i \in 1..Len(DIGITS) : DIGITS[i] = c) - 1

\* s.endsWith(suf)
EndsWith(s, suf) ==
    /\ Len(suf) <= Len(s)
    /\ SubSeq(s, Len(s) - Len(suf) + 1, Len(s)) = suf

\* s.includes(sub)
Includes(s, sub) ==
    \E i \in 1..(Len(s) - Len(sub) + 1) : SubSeq(s, i, i + Len(sub) - 1) = sub

\* s.split(sep) for a one-character separator: always at least one part.
RECURSIVE Split(_, _)
Split(s, sep) ==
    IF \E i \in 1..Len(s) : s[i] = sep
    THEN LET i == CHOOSE k \in 1..Len(s) : s[k] = sep /\ \A j \in 1..(k - 1) : s[j] # sep
         IN  <<SubSeq(s, 1, i - 1)>> \o Split(SubSeq(s, i + 1, Len(s)), sep)
    ELSE <<s>>

\* parseInt(s, 10) of a string of decimal digits.
RECURSIVE ParseInt(_)
ParseInt(s) ==
    IF Len(s) = 0 THEN 0
    ELSE 10 * ParseInt(SubSeq(s, 1, Len(s) - 1)) + DigitValue(s[Len(s)])

\* new Date(t).getFullYear()
GetFullYear(t) == EpochYear + ((EpochDay + (t \div DAY_MS)) \div 365)

(***************************************************************************)
(* Parsing the listing: isImageFile, detectCategory, isLegacyIcon,         *)
(* inferProductName, parseIconFiles.                                       *)
(***************************************************************************)
isImageFile(path) ==
    LET ext == ToLowerCase(path)
    IN  EndsWith(ext, <<".","p","n","g">>) \/ EndsWith(ext, <<".","s","v","g">>)

detectCategory(path) ==
    LET parts == Split(path, "/")
    IN  IF Len(parts) > 0 THEN parts[1] ELSE <<"O","t","h","e","r">>

\* Position i starts a match of /(\d{4})-(\d{4})/ in path.
YearPatternAt(path, i) ==
    /\ i + 8 <= Len(path)
    /\ \A k \in 0..3 : IsDigit(path[i + k])
    /\ path[i + 4] = "-"
    /\ \A k \in 5..8 : IsDigit(path[i + k])

\* An isLegacyIcon for which a range ending in the current year is legacy.
isLegacyIconInclusive(path, t) ==
    LET lowerPath == ToLowerCase(path)
    IN  IF \/ Includes(lowerPath, <<"z","z","l","e","g","a","c","y">>)
           \/ Includes(lowerPath, <<"l","e","g","a","c","y">>)
        THEN TRUE
        ELSE IF \E i \in 1..Len(path) : YearPatternAt(path, i)
             THEN LET m == CHOOSE i \in 1..Len(path) :
                               /\ YearPatternAt(path, i)
                               /\ \A j \in 1..(i - 1) : ~YearPatternAt(path, j)
                  IN  ParseInt(SubSeq(path, m + 5, m + 8)) <= GetFullYear(t)
             ELSE FALSE

isLegacyIcon(path, t) ==
    LET lowerPath == ToLowerCase(path)
    IN  IF \/ Includes(lowerPath, <<"z","z","l","e","g","a","c","y">>)
           \/ Includes(lowerPath, <<"l","e","g","a","c","y">>)
        THEN TRUE
        ELSE IF \E i \in 1..Len(path) : YearPatternAt(path, i)
             THEN LET m == CHOOSE i \in 1..Len(path) :
                               /\ YearPatternAt(path, i)
                               /\ \A j \in 1..(i - 1) : ~YearPatternAt(path, j)
                      endYear == ParseInt(SubSeq(path, m + 5, m + 8))
                      currentYear == GetFullYear(t)
                  IN  endYear < currentYear
             ELSE FALSE

\* filename.replace(/\.(png|svg)$/i, '').replace(/[-_]/g, ' ').toLowerCase()
inferProductName(path) ==
    LET parts == Split(path, "/")
        filename == parts[Len(parts)]
        stem == IF isImageFile(filename)
                THEN SubSeq(filename, 1, Len(filename) - 4)
                ELSE filename
    IN  ToLowerCase([i \in 1..Len(stem) |->
                        IF stem[i] \in {"-", "_"} THEN " " ELSE stem[i]])

RECURSIVE SelectImages(_)
SelectImages(tree) ==
    IF Len(tree) = 0 THEN <<>>
    ELSE IF Head(tree).type = "blob" /\ isImageFile(Head(tree).path)
         THEN <<Head(tree)>> \o SelectImages(Tail(tree))
         ELSE SelectImages(Tail(tree))

IconOf(item, t) ==
    LET pathParts == Split(item.path, "/")
        filename == pathParts[Len(pathParts)]
        dotParts == Split(filename, ".")
        isLegacy == isLegacyIcon(item.path, t)
    IN  [ path |-> item.path,
          filename |-> filename,
          category |-> detectCategory(item.path),
          size |-> IF "size" \in DOMAIN item THEN item.size ELSE 0,
          rawUrl |-> RAW_CONTENT_BASE \o item.path,
          isLegacy |-> isLegacy,
          isNew |-> ~isLegacy,
          extension |-> ToLowerCase(dotParts[Len(dotParts)]),
          productName |-> inferProductName(item.path) ]

\* parseIconFiles(tree), evaluated at the instant t.
parseIconFiles(tree, t) ==
    LET blobs == SelectImages(tree)
    IN  [i \in 1..Len(blobs) |-> IconOf(blobs[i], t)]

(***************************************************************************)
(* The environment: what the listing endpoint may serve.                   *)
(***************************************************************************)
PathA == <<"A","/","a",".","p","n","g">>
PathB == <<"B","/","2","0","1","6","-","2","0","1","9","/","b",".","S","V","G">>
PathDoc == <<"R",".","m","d">>

Blob(path, size) == [path |-> path, type |-> "blob", size |-> size]
BlobNoSize(path) == [path |-> path, type |-> "blob"]
Dir(path) == [path |-> path, type |-> "tree"]

\* Paths that exercise the parsing rules, by name: year groups that ended,
\* end this year, next year or later, the legacy word in two cases, two
\* groups in both orders, near misses of the pattern, a path without folder.
ParsePaths ==
    [ old |-> <<"X","/","2","0","1","6","-","2","0","1","9","/","a",".","p","n","g">>,
      thisYear |-> <<"X","/","2","0","2","0","-","2","0","2","6","/","a",".","p","n","g">>,
      nextYear |-> <<"X","/","2","0","2","0","-","2","0","2","7","/","a",".","p","n","g">>,
      future |-> <<"X","/","2","0","2","4","-","2","0","9","9","/","a",".","p","n","g">>,
      wordAndFuture |-> <<"O","l","d","-","L","e","g","a","c","y","/","2","0","2","4","-","2","0","9","9","/","a",".","p","n","g">>,
      upperWord |-> <<"z","z","L","E","G","A","C","Y","/","a",".","s","v","g">>,
      futureThenOld |-> <<"X","/","2","0","2","4","-","2","0","9","9","/","2","0","1","6","-","2","0","1","9","/","a",".","p","n","g">>,
      oldThenFuture |-> <<"X","/","2","0","1","6","-","2","0","1","9","/","2","0","2","4","-","2","0","9","9","/","a",".","p","n","g">>,
      plain |-> <<"X","/","y","/","a",".","p","n","g">>,
      longDigits |-> <<"X","/","1","2","0","1","6","-","2","0","1","9","9","/","a",".","p","n","g">>,
      noDash |-> <<"X","/","2","0","1","6","_","2","0","1","9","/","a",".","p","n","g">>,
      shortYear |-> <<"X","/","2","1","6","-","2","0","1","9","/","a",".","p","n","g">>,
      noFolder |-> <<"l","o","g","o",".","p","n","g">> ]

\* The bodies the listing endpoint serves, by version of the upstream tree;
\* besides v1 and v2, one single-image tree for each of ParsePaths.
Tree(v) ==
    IF v = "v1"
    THEN <<Dir(<<"A">>), Blob(PathA, 10), Blob(PathDoc, 3)>>
    ELSE IF v = "v2"
    THEN <<Blob(PathA, 10), BlobNoSize(PathB)>>
    ELSE <<Blob(ParsePaths[v], 1)>>

Versions == {"v1", "v2"}
EtagOf(v) == IF v = "v1" THEN "e1" ELSE "e2"

\* What response.json() may yield for a body: a tree, or a rejection.
Unparseable == "unparseable"
Bodies == Versions \cup {Unparseable}

\* response.ok
ResponseOk(status) == status >= 200 /\ status <= 299

\* The responses to a request carrying If-None-Match = header (or none).
\* A 304 answers only a conditional request.
Responses(header) ==
    {[kind |-> "network"]}
    \cup {[kind |-> "http", status |-> s, etag |-> NullString, body |-> Unparseable] :
            s \in {404, 429, 500} \cup (IF header = Undefined THEN {} ELSE {304})}
    \cup {[kind |-> "http", status |-> 200, etag |-> EtagOf(v), body |-> v] : v \in Versions}
    \cup {[kind |-> "http", status |-> 200, etag |-> NullString, body |-> b] : b \in Bodies}

(***************************************************************************)
(* localStorage and the two icon-cache accessors.                          *)
(***************************************************************************)
CACHE_KEY == "icon365-cache"
COMMITS_CACHE_KEY == "icon365-commits-cache"
FORCE_REVALIDATE_KEY == "icon365-force-revalidate"

\* The storage is a function from the keys it holds to their values.
setItem(st, key, value) ==
    [k \in DOMAIN st \cup {key} |-> IF k = key THEN value ELSE st[k]]
removeItem(st, key) == [k \in DOMAIN st \ {key} |-> st[k]]

\* JSON.stringify drops a property whose value is undefined.
JSONstringify(data) ==
    IF data.etag = Undefined
    THEN [timestamp |-> data.timestamp, icons |-> data.icons]
    ELSE data

\* JSON.parse; reading a property the text does not hold gives undefined.
JSONparse(text) ==
    [ timestamp |-> text.timestamp,
      icons |-> text.icons,
      etag |-> IF "etag" \in DOMAIN text THEN text.etag ELSE Undefined ]

\* A getCachedData that takes an envelope of age exactly CACHE_TTL for expired.
getCachedDataExpiringAtTtl(st, t) ==
    LET forceRevalidate == /\ FORCE_REVALIDATE_KEY \in DOMAIN st
                           /\ st[FORCE_REVALIDATE_KEY] = "true"
    IN  IF CACHE_KEY \notin DOMAIN st
        THEN [data |-> Null, needsRevalidation |-> TRUE]
        ELSE LET data == JSONparse(st[CACHE_KEY])
                 isExpired == t - data.timestamp >= CACHE_TTL
             IN  [data |-> data, needsRevalidation |-> isExpired \/ forceRevalidate]

\* getCachedData() on the storage st at the instant t.
getCachedData(st, t) ==
    LET forceRevalidate == /\ FORCE_REVALIDATE_KEY \in DOMAIN st
                           /\ st[FORCE_REVALIDATE_KEY] = "true"
    IN  IF CACHE_KEY \notin DOMAIN st
        THEN [data |-> Null, needsRevalidation |-> TRUE]
        ELSE LET data == JSONparse(st[CACHE_KEY])
                 isExpired == t - data.timestamp > CACHE_TTL
             IN  [data |-> data, needsRevalidation |-> isExpired \/ forceRevalidate]

\* A setCachedData that keeps an envelope already stored: the first writer
\* wins.
setCachedDataIfAbsent(st, icons, etag, t, writeOk) ==
    LET data == [timestamp |-> t, icons |-> icons, etag |-> etag]
    IN  IF writeOk /\ CACHE_KEY \notin DOMAIN st
        THEN removeItem(setItem(st, CACHE_KEY, JSONstringify(data)),
                        FORCE_REVALIDATE_KEY)
        ELSE st

\* setCachedData(icons, etag) on the storage st at the instant t; writeOk is
\* whether localStorage.setItem succeeds.  A throwing setItem skips the
\* removeItem that follows it and is swallowed by the catch.
setCachedData(st, icons, etag, t, writeOk) ==
    LET data == [timestamp |-> t, icons |-> icons, etag |-> etag]
    IN  IF writeOk
        THEN removeItem(setItem(st, CACHE_KEY, JSONstringify(data)),
                        FORCE_REVALIDATE_KEY)
        ELSE st

(***************************************************************************)
(* fetchWithRetry: what one answered attempt leads to.                     *)
(***************************************************************************)
\* Error objects; a message is the sequence of its parts.
HttpError(status) ==
    [name |-> "Error", message |-> <<"GitHub API error: ", status>>, status |-> status]
NetworkError == [name |-> "TypeError", message |-> <<"Failed to fetch">>, status |-> 0]
SyntaxError == [name |-> "SyntaxError", message |-> <<"Unexpected token">>, status |-> 0]

\* The body of the for loop's try/catch for one response: "return" hands the
\* response to the caller; otherwise lastError is set and the loop goes on.
\* The throw for a 4xx status sits inside the try block, so the catch of the
\* same block receives it.
AttemptOutcome(resp) ==
    IF resp.kind = "network"
    THEN [to |-> "catch", lastError |-> NetworkError]
    ELSE IF ResponseOk(resp.status) \/ resp.status = 304
         THEN [to |-> "return", lastError |-> Null]
         ELSE IF resp.status >= 400 /\ resp.status < 500 /\ resp.status # 429
              THEN [to |-> "catch", lastError |-> HttpError(resp.status)]
              ELSE [to |-> "next", lastError |-> HttpError(resp.status)]

\* if (attempt < maxRetries - 1): the loop waits before the next attempt.
WaitsAfter(attempt) == attempt < MaxRetries - 1

\* A backoff that starts at 2 seconds.
BackoffDelayFromTwoSeconds(attempt) == (2 ^ (attempt + 1)) * 1000

\* Math.pow(2, attempt) * 1000
BackoffDelay(attempt) == (2 ^ attempt) * 1000

(***************************************************************************)
(* The page: URL parameters, dark mode and the first render of App.        *)
(***************************************************************************)
DARK_MODE_KEY == "icon365-dark-mode"
PAGE_SIZE == 50

\* type FileTypeFilter = 'all' | 'png' | 'svg'
ALL == <<"a","l","l">>
PNG == <<"p","n","g">>
SVG == <<"s","v","g">>

\* selectedCategory = null
NoCategory == <<>>

\* application/x-www-form-urlencoded, as URLSearchParams writes and reads
\* it; an escape sequence is one token.
FormEncodeChar(c) ==
    CASE c = " " -> "+"
      [] c = "+" -> "%2B"
      [] c = "&" -> "%26"
      [] c = "=" -> "%3D"
      [] c = "%" -> "%25"
      [] c = "/" -> "%2F"
      [] c = "?" -> "%3F"
      [] OTHER -> c
FormDecodeChar(c) ==
    CASE c = "+" -> " "
      [] c = "%2B" -> "+"
      [] c = "%26" -> "&"
      [] c = "%3D" -> "="
      [] c = "%25" -> "%"
      [] c = "%2F" -> "/"
      [] c = "%3F" -> "?"
      [] OTHER -> c
FormEncode(str) == [j \in 1..Len(str) |-> FormEncodeChar(str[j])]
FormDecode(str) == [j \in 1..Len(str) |-> FormDecodeChar(str[j])]

\* URLSearchParams.toString() of the list of <<name, value>> pairs.
RECURSIVE ParamsToString(_)
ParamsToString(params) ==
    IF params = <<>> THEN <<>>
    ELSE LET one == FormEncode(params[1][1]) \o <<"=">> \o FormEncode(params[1][2])
         IN  IF Len(params) = 1 THEN one
             ELSE one \o <<"&">> \o ParamsToString(Tail(params))

\* One name=value part of a query string; a part without "=" has an empty
\* value.
ParsePair(part) ==
    IF \E j \in 1..Len(part) : part[j] = "="
    THEN LET j == CHOOSE k \in 1..Len(part) :
                      part[k] = "=" /\ \A n \in 1..(k - 1) : part[n] # "="
         IN  <<FormDecode(SubSeq(part, 1, j - 1)),
               FormDecode(SubSeq(part, j + 1, Len(part)))>>
    ELSE <<FormDecode(part), <<>>>>

\* new URLSearchParams(search): a leading "?" is dropped, empty parts are
\* skipped.
ParseParams(search) ==
    LET text == IF search # <<>> /\ Head(search) = "?" THEN Tail(search) ELSE search
        parts == SelectSeq(Split(text, "&"), LAMBDA part : part # <<>>)
    IN  [j \in 1..Len(parts) |-> ParsePair(parts[j])]

\* params.get(name) || fallback
ParamsGetOr(params, name, fallback) ==
    IF \E j \in 1..Len(params) : params[j][1] = name
    THEN LET v == params[CHOOSE j \in 1..Len(params) :
                      params[j][1] = name /\ \A n \in 1..(j - 1) : params[n][1] # name][2]
         IN  IF v = <<>> THEN fallback ELSE v
    ELSE fallback

\* getUrlParams() on location.search
getUrlParams(search) ==
    LET params == ParseParams(search)
    IN  [ search |-> ParamsGetOr(params, <<"q">>, <<>>),
          category |-> ParamsGetOr(params, <<"category">>, NoCategory) ]

\* setUrlParams(search, category): the location.search it leaves.
setUrlParams(search, category) ==
    LET params == (IF search # <<>> THEN << <<(<<"q">>), search>> >> ELSE <<>>)
                  \o (IF category # NoCategory
                      THEN << <<(<<"category">>), category>> >> ELSE <<>>)
    IN  IF ParamsToString(params) # <<>>
        THEN <<"?">> \o ParamsToString(params)
        ELSE <<>>

\* String(darkMode)
BoolString(b) == IF b THEN "true" ELSE "false"

\* getInitialDarkMode() on the page br with the storage st.
getInitialDarkMode(br, st) ==
    IF DARK_MODE_KEY \in DOMAIN st
    THEN st[DARK_MODE_KEY] = "true"
    ELSE br.prefersDark

\* The useState initial values of App on the page br with the storage st;
\* pending: a loadIcons awaits Promise.all.
AppInitialState(br, st) ==
    [ loading |-> TRUE, error |-> Null, icons |-> <<>>,
      recentChanges |-> <<>>, pending |-> FALSE,
      darkMode |-> getInitialDarkMode(br, st),
      searchQuery |-> getUrlParams(br.search).search,
      selectedCategory |-> getUrlParams(br.search).category,
      visibleCount |-> PAGE_SIZE,
      fileTypeFilter |-> ALL,
      showNewOnly |-> TRUE,
      selectedIndex |-> -1 ]

(***************************************************************************)
(* State.                                                                  *)
(***************************************************************************)
VARIABLES
    now,             \* Date.now(), in milliseconds since the model's epoch
    ticks,           \* how often the clock was advanced
    localStorage,    \* window.localStorage: key -> stored value
    fi,              \* fetchIcons invocations: slot -> frame (locals, position)
    uncaught,        \* the operations a storage exception escaped from
    frc,             \* the fetchRecentChanges invocation: frame (locals, position)
    ui,              \* the App component: its state and the pending loadIcons
    browser          \* the page: location.search, the system colour scheme

vars == <<now, ticks, localStorage, fi, uncaught, frc, ui, browser>>

\* Slots for overlapping fetchIcons invocations.
Slots == {1, 2}

Resolved(icons) == [ok |-> TRUE, icons |-> icons]
Rejected(error) == [ok |-> FALSE, error |-> error]

\* The frame of a slot with no invocation.  Besides the locals, a frame
\* records for the current invocation: seen, what the storage held under
\* CACHE_KEY when the invocation began (<<>> when nothing); sent, the
\* If-None-Match value of each request issued; delays, each backoff delay
\* waited; via, the return or catch the invocation ended at.
IdleFrame ==
    [ pc |-> "idle", cached |-> Null, needsRevalidation |-> FALSE,
      headers |-> Undefined, attempt |-> 0, lastError |-> Null,
      response |-> Null, result |-> Null,
      seen |-> <<>>, sent |-> <<>>, delays |-> <<>>, via |-> "" ]

\* The frame of fetchRecentChanges when it is not running.  Besides the
\* locals (attempt and lastError of the retry loop, commits, the position i
\* of the loop over the sliced listing, changes), a frame records failed:
\* the positions whose detail was not fetched successfully; inflight: the
\* positions whose detail request awaits its response; issued: the number
\* of detail requests sent; and via.
IdleRecent ==
    [ pc |-> "idle", attempt |-> 0, lastError |-> Null, commits |-> <<>>,
      i |-> 0, changes |-> <<>>, result |-> Null, failed |-> {},
      inflight |-> {}, issued |-> 0, via |-> "" ]

\* A page opened without parameters on a system that prefers light; toggled:
\* whether the user has ever used the dark-mode toggle; loads: how often the
\* page has been loaded.
InitialBrowser ==
    [search |-> <<>>, prefersDark |-> FALSE, toggled |-> FALSE, loads |-> 1]

\* The state of App at its first render on the page br with the storage st.
InitialUi == AppInitialState(InitialBrowser, <<>>)

Init ==
    /\ now = 0
    /\ ticks = 0
    /\ localStorage = <<>>
    /\ fi = [p \in Slots |-> IdleFrame]
    /\ uncaught = {}
    /\ frc = IdleRecent
    /\ ui = InitialUi
    /\ browser = InitialBrowser

(***************************************************************************)
(* fetchIcons.                                                             *)
(***************************************************************************)
\* The If-None-Match header prepared from the envelope read at the start.
ConditionalHeader(cached) ==
    IF cached # Null /\ cached.etag \notin {Undefined, ""}
    THEN cached.etag
    ELSE Undefined

\* A request that takes its validator from the storage as it is when sent.
RequestHeaderFromStorage(f) ==
    IF CACHE_KEY \in DOMAIN localStorage /\ "etag" \in DOMAIN localStorage[CACHE_KEY]
    THEN localStorage[CACHE_KEY].etag
    ELSE Undefined

\* The If-None-Match value a request of the invocation with frame f carries:
\* fetchWithRetry passes the same options object to every fetch.
RequestHeader(f) == f.headers

\* A catch block that rethrows whatever the cache holds.
FallbackRethrowing(f, error) == Rejected(error)

\* The catch block of fetchIcons.
Fallback(f, error) ==
    IF f.cached # Null THEN Resolved(f.cached.icons) ELSE Rejected(error)

\* The invocation with frame f ends with result: the locals of the retry
\* loop are gone, the envelope read at the start and the record of the
\* requests stay for inspection until the caller takes the result.
Done(f, via, result) ==
    [f EXCEPT !.pc = "done", !.result = result, !.via = via,
              !.lastError = Null, !.response = Null]

\* A 304 branch that rewrites the envelope without its validator.
RevalidateDroppingEtag(st, cached, t, writeOk) ==
    IF cached # Null
    THEN setCachedData(st, cached.icons, Undefined, t, writeOk)
    ELSE st

\* A 304 branch that refreshes the timestamp of whatever list is stored now,
\* under the etag read at the start.
RevalidateStoredList(st, cached, t, writeOk) ==
    IF cached # Null
    THEN setCachedData(st,
                       IF CACHE_KEY \in DOMAIN st
                       THEN JSONparse(st[CACHE_KEY]).icons ELSE cached.icons,
                       cached.etag, t, writeOk)
    ELSE st

\* The 304 branch: the envelope read at the start is written back with its
\* icons and its etag, which refreshes the timestamp and clears the marker.
Revalidate(st, cached, t, writeOk) ==
    IF cached # Null
    THEN setCachedData(st, cached.icons, cached.etag, t, writeOk)
    ELSE st

\* A catch block that, like the 304 branch, writes the envelope back.
AfterFallbackRefreshing(st, cached, t) == Revalidate(st, cached, t, TRUE)

\* The storage after the catch block, entered at the instant t with the
\* envelope cached read at the start: the block logs and returns or rethrows,
\* it calls neither setCachedData nor removeItem.
AfterFallback(st, cached, t) == st

\* fetchIcons() up to its first await, on the storage st at the instant t:
\* a cache hit returns at once, anything else issues the first listing
\* request.
FetchIconsEntry(st, t) ==
    LET r == getCachedData(st, t)
        f == [IdleFrame EXCEPT !.cached = r.data,
                               !.needsRevalidation = r.needsRevalidation,
                               !.seen = IF CACHE_KEY \in DOMAIN st
                                        THEN <<st[CACHE_KEY]>> ELSE <<>>]
    IN  IF r.data # Null /\ ~r.needsRevalidation
        THEN Done(f, "cache", Resolved(r.data.icons))
        ELSE LET g == [f EXCEPT !.headers = ConditionalHeader(r.data)]
             IN  [g EXCEPT !.pc = "fetch", !.sent = <<RequestHeader(g)>>]

\* A call of fetchIcons() in the lowest free slot.
FetchIconsCall(p) ==
    /\ fi[p].pc = "idle"
    /\ \A q \in Slots : q < p => fi[q].pc # "idle"
    /\ fi' = [fi EXCEPT ![p] = FetchIconsEntry(localStorage, now)]
    /\ UNCHANGED <<now, ticks, localStorage, uncaught, frc, ui, browser>>

\* The pending fetch of slot p settles with resp; the invocation runs on to
\* its next await or to its end.  writeOk: whether a setItem would succeed.
FetchSettles(p, resp, writeOk) ==
    LET f == fi[p]
        out == AttemptOutcome(resp)
    IN  /\ f.pc = "fetch"
        /\ resp \in Responses(RequestHeader(f))
        /\ IF out.to = "return"
           THEN IF resp.status = 304
                THEN /\ localStorage' = Revalidate(localStorage, f.cached, now, writeOk)
                     /\ fi' = [fi EXCEPT ![p] =
                                Done(f, "304", Resolved(IF f.cached # Null
                                                 THEN f.cached.icons ELSE <<>>))]
                ELSE /\ fi' = [fi EXCEPT ![p].pc = "json", ![p].response = resp]
                     /\ UNCHANGED localStorage
           ELSE IF WaitsAfter(f.attempt)
                THEN /\ fi' = [fi EXCEPT ![p].pc = "backoff",
                                         ![p].lastError = out.lastError,
                                         ![p].delays = Append(@, BackoffDelay(f.attempt))]
                     /\ UNCHANGED localStorage
                ELSE /\ fi' = [fi EXCEPT ![p] = Done(f, "catch", Fallback(f, out.lastError))]
                     /\ localStorage' = AfterFallback(localStorage, f.cached, now)
        /\ UNCHANGED <<now, ticks, uncaught, frc, ui, browser>>

\* The backoff timer of slot p fires: the loop issues the next request.
BackoffElapses(p) ==
    /\ fi[p].pc = "backoff"
    /\ fi' = [fi EXCEPT ![p].pc = "fetch",
                        ![p].attempt = @ + 1,
                        ![p].sent = Append(@, RequestHeader(fi[p]))]
    /\ UNCHANGED <<now, ticks, localStorage, uncaught, frc, ui, browser>>

\* response.json() of slot p settles: the listing is parsed and cached, or
\* the rejection reaches the catch block.
JsonSettles(p, writeOk) ==
    LET f == fi[p]
    IN  /\ f.pc = "json"
        /\ IF f.response.body # Unparseable
           THEN LET icons == parseIconFiles(Tree(f.response.body), now)
                    etag == IF f.response.etag \in {NullString, ""}
                            THEN Undefined ELSE f.response.etag
                IN  /\ localStorage' = setCachedData(localStorage, icons, etag, now, writeOk)
                    /\ fi' = [fi EXCEPT ![p] = Done(f, "parsed", Resolved(icons))]
           ELSE /\ fi' = [fi EXCEPT ![p] = Done(f, "catch", Fallback(f, SyntaxError))]
                /\ localStorage' = AfterFallback(localStorage, f.cached, now)
        /\ UNCHANGED <<now, ticks, uncaught, frc, ui, browser>>

\* The caller takes the result; the slot is free again.
FetchIconsReturn(p) ==
    /\ fi[p].pc = "done"
    /\ fi' = [fi EXCEPT ![p] = IdleFrame]
    /\ UNCHANGED <<now, ticks, localStorage, uncaught, frc, ui, browser>>

\* A clearCache that deletes the envelope, as a cache clear usually does.
clearCacheDeleting(st, writeOk) ==
    IF writeOk THEN removeItem(st, CACHE_KEY) ELSE st

\* A clearCache that also drops the commit cache.
clearCacheWithCommits(st, writeOk) ==
    IF writeOk
    THEN removeItem(setItem(st, FORCE_REVALIDATE_KEY, "true"), COMMITS_CACHE_KEY)
    ELSE st

\* clearCache(): one unguarded setItem of the force-revalidate marker.
clearCache(st, writeOk) ==
    IF writeOk THEN setItem(st, FORCE_REVALIDATE_KEY, "true") ELSE st

\* A call of clearCache(); the exception of a failing write reaches the caller.
ClearCacheCall(writeOk) ==
    /\ localStorage' = clearCache(localStorage, writeOk)
    /\ uncaught' = IF writeOk THEN uncaught ELSE uncaught \cup {"clearCache"}
    /\ UNCHANGED <<now, ticks, fi, frc, ui, browser>>

\* Time passes.
Tick(d) ==
    /\ ticks < MaxTicks
    /\ ticks' = ticks + 1
    /\ now' = now + d
    /\ UNCHANGED <<localStorage, fi, uncaught, frc, ui, browser>>

\* One invocation at a time; the storage accepts every write.
Next ==
    \/ FetchIconsCall(1)
    \/ \E resp \in Responses(RequestHeader(fi[1])) : FetchSettles(1, resp, TRUE)
    \/ BackoffElapses(1)
    \/ JsonSettles(1, TRUE)
    \/ FetchIconsReturn(1)
    \/ ClearCacheCall(TRUE)
    \/ \E d \in {1, CACHE_TTL} : Tick(d)

Spec == Init /\ [][Next]_vars

\* Overlapping invocations: the listing endpoint answers with a connection
\* failure, a 304 or a parseable listing, and the storage accepts writes.
OverlapResponses(header) ==
    {r \in Responses(header) :
        \/ r.kind = "network"
        \/ r.status = 304
        \/ r.status = 200 /\ r.etag # NullString}

NextOverlap ==
    \/ \E p \in Slots : FetchIconsCall(p)
    \/ \E p \in Slots : \E resp \in OverlapResponses(RequestHeader(fi[p])) :
            FetchSettles(p, resp, TRUE)
    \/ \E p \in Slots : BackoffElapses(p)
    \/ \E p \in Slots : JsonSettles(p, TRUE)
    \/ \E p \in Slots : FetchIconsReturn(p)
    \/ ClearCacheCall(TRUE)
    \/ Tick(1)

SpecOverlap == Init /\ [][NextOverlap]_vars

\* One invocation at a time; any write to the storage may throw (quota
\* exceeded).
NextQuota ==
    \/ FetchIconsCall(1)
    \/ \E w \in BOOLEAN : \E resp \in Responses(RequestHeader(fi[1])) :
            FetchSettles(1, resp, w)
    \/ BackoffElapses(1)
    \/ \E w \in BOOLEAN : JsonSettles(1, w)
    \/ FetchIconsReturn(1)
    \/ \E w \in BOOLEAN : ClearCacheCall(w)
    \/ Tick(CACHE_TTL)

SpecQuota == Init /\ [][NextQuota]_vars

(***************************************************************************)
(* Properties of fetchIcons, fetchWithRetry and clearCache.                *)
(***************************************************************************)
MarkerSet(st) ==
    FORCE_REVALIDATE_KEY \in DOMAIN st /\ st[FORCE_REVALIDATE_KEY] = "true"

HasEnvelope(st) == CACHE_KEY \in DOMAIN st

\* The etag of a stored envelope, Undefined when it holds none.
StoredEtag(env) == IF "etag" \in DOMAIN env THEN env.etag ELSE Undefined

\* Slot p begins an invocation in this step.
Begins(p) == fi[p].pc = "idle" /\ fi'[p].pc # "idle"

\* C1: whenever the icon cache envelope is present, its age does not exceed
\* the TTL and the force-revalidate marker is not set, fetchIcons returns
\* exactly the cached icons list, issues no network request and leaves the
\* stored envelope unchanged.
C1_FreshCacheServedWithoutNetwork ==
    [][\A p \in Slots :
          ( /\ Begins(p)
            /\ HasEnvelope(localStorage)
            /\ now - localStorage[CACHE_KEY].timestamp <= CACHE_TTL
            /\ ~MarkerSet(localStorage) )
          => /\ fi'[p].pc = "done"
             /\ fi'[p].result = Resolved(localStorage[CACHE_KEY].icons)
             /\ fi'[p].sent = <<>>
             /\ localStorage' = localStorage]_vars

\* An invocation has ended on an envelope of age exactly CACHE_TTL without a
\* request.
C1_Witness ==
    \E p \in Slots :
        /\ fi[p].pc = "done"
        /\ fi[p].sent = <<>>
        /\ fi[p].seen # <<>>
        /\ now - fi[p].seen[1].timestamp = CACHE_TTL
        /\ fi[p].result = Resolved(fi[p].seen[1].icons)
        /\ Len(fi[p].result.icons) > 0

\* C2: when a fetchIcons listing request fails for good (retries exhausted,
\* or the response body cannot be parsed), fetchIcons resolves with the icons
\* of the envelope that existed at the start of the call, even an expired
\* one, and rejects with the error if no envelope existed.
C2_FailureFallsBackToCacheOrRejects ==
    \A p \in Slots :
        (fi[p].pc = "done" /\ fi[p].via = "catch")
        => IF fi[p].seen # <<>>
           THEN fi[p].result = Resolved(fi[p].seen[1].icons)
           ELSE ~fi[p].result.ok /\ fi[p].result.error # Null

\* A failed invocation has resolved with the list of an expired envelope
\* after three requests.
C2_Witness ==
    \E p \in Slots :
        /\ fi[p].pc = "done"
        /\ fi[p].via = "catch"
        /\ Len(fi[p].sent) = MaxRetries
        /\ fi[p].seen # <<>>
        /\ now - fi[p].seen[1].timestamp > CACHE_TTL
        /\ fi[p].result.ok

IsPermanentClientError(status) == status >= 400 /\ status < 500 /\ status # 429

\* C3: when a request made by fetchWithRetry is answered with a 4xx status
\* other than 429, fetchWithRetry fails immediately: no further request, no
\* backoff delay, exactly one request made by that call.
C3_ClientErrorFailsImmediately ==
    \A p \in Slots :
        (fi[p].lastError # Null /\ IsPermanentClientError(fi[p].lastError.status))
        => /\ fi[p].pc \notin {"backoff", "fetch"}
           /\ Len(fi[p].sent) = 1
           /\ fi[p].delays = <<>>

\* C4: one fetchWithRetry call issues at most 3 requests, waits 1 second
\* before the 2nd and 2 seconds before the 3rd, issues no request after a
\* response that is ok or 304, and throws after the 3rd failure without a
\* further wait (no 4-second delay).
C4_Schedule(f) ==
    /\ Len(f.sent) <= 3
    /\ f.delays = SubSeq(<<1000, 2000>>, 1, Len(f.delays))
    /\ Len(f.delays) =
         IF f.pc = "backoff" THEN Len(f.sent)
         ELSE IF f.sent = <<>> THEN 0 ELSE Len(f.sent) - 1

NotModified(p) == fi[p].pc = "fetch" /\ fi'[p].pc = "done" /\ fi'[p].via = "304"

\* C5: when the listing endpoint answers 304 and an envelope exists,
\* fetchIcons returns the cached icons list unchanged, and the stored
\* envelope afterwards has the same icons and the same etag as before, with
\* only its timestamp set to the current time.
C5_NotModifiedKeepsListAndEtag ==
    [][\A p \in Slots :
          (NotModified(p) /\ HasEnvelope(localStorage))
          => /\ fi'[p].result = Resolved(localStorage[CACHE_KEY].icons)
             /\ HasEnvelope(localStorage')
             /\ localStorage'[CACHE_KEY].icons = localStorage[CACHE_KEY].icons
             /\ "etag" \in DOMAIN localStorage'[CACHE_KEY]
             /\ StoredEtag(localStorage'[CACHE_KEY]) = StoredEtag(localStorage[CACHE_KEY])
             /\ localStorage'[CACHE_KEY].timestamp = now
             /\ DOMAIN localStorage'[CACHE_KEY] = {"timestamp", "icons", "etag"}]_vars

\* A 304 has refreshed the timestamp of an envelope written earlier.
C5_Witness ==
    \E p \in Slots :
        /\ fi[p].pc = "done"
        /\ fi[p].via = "304"
        /\ fi[p].seen[1].timestamp < now
        /\ HasEnvelope(localStorage)
        /\ localStorage[CACHE_KEY] = [fi[p].seen[1] EXCEPT !.timestamp = now]
        /\ fi[p].result = Resolved(fi[p].seen[1].icons)

\* C6: in one fetchIcons invocation the cache is read before any listing
\* request is sent, and every listing request of the invocation (the first
\* attempt and each retry) carries If-None-Match equal to the etag of the
\* envelope as read at the start, or no validator when that envelope was
\* absent or had no etag; a value written to the cache during the invocation
\* is never used as its validator.
C6_ValidatorIsTheOneReadAtStart ==
    \A p \in Slots :
        /\ fi[p].sent # <<>> => fi[p].pc # "idle"
        /\ \A i \in 1..Len(fi[p].sent) :
              fi[p].sent[i] = IF fi[p].seen = <<>> THEN Undefined
                              ELSE StoredEtag(fi[p].seen[1])

\* A retry is in flight with the validator read at the start while the
\* storage already holds an envelope with another etag.
C6_Witness ==
    \E p \in Slots :
        /\ fi[p].pc = "fetch"
        /\ Len(fi[p].sent) >= 2
        /\ fi[p].seen # <<>>
        /\ HasEnvelope(localStorage)
        /\ StoredEtag(localStorage[CACHE_KEY]) # StoredEtag(fi[p].seen[1])
        /\ fi[p].sent[Len(fi[p].sent)] = StoredEtag(fi[p].seen[1])
        /\ fi[p].sent[Len(fi[p].sent)] # Undefined

\* C7: clearCache leaves the stored envelope untouched and only sets the
\* force-revalidate marker; the next fetchIcons issues a listing request
\* carrying the cached etag although the envelope is unexpired; if the first
\* response is 304, no second request is made and the marker is cleared; and
\* a following fetchIcons within the TTL makes no network request.
C7_RefreshRevalidatesOnce ==
    [][/\ (fi' = fi /\ now' = now)
          => /\ MarkerSet(localStorage')
             /\ DOMAIN localStorage' = DOMAIN localStorage \cup {FORCE_REVALIDATE_KEY}
             /\ \A k \in DOMAIN localStorage \ {FORCE_REVALIDATE_KEY} :
                    localStorage'[k] = localStorage[k]
       /\ \A p \in Slots :
            /\ (Begins(p) /\ MarkerSet(localStorage) /\ HasEnvelope(localStorage))
               => /\ fi'[p].pc = "fetch"
                  /\ fi'[p].sent = <<StoredEtag(localStorage[CACHE_KEY])>>
                  /\ localStorage' = localStorage
            /\ (NotModified(p) /\ Len(fi[p].sent) = 1)
               => /\ fi'[p].sent = fi[p].sent
                  /\ ~MarkerSet(localStorage')
                  /\ localStorage'[CACHE_KEY].timestamp = now
            /\ ( /\ Begins(p)
                 /\ ~MarkerSet(localStorage)
                 /\ HasEnvelope(localStorage)
                 /\ now - localStorage[CACHE_KEY].timestamp <= CACHE_TTL )
               => fi'[p].pc = "done" /\ fi'[p].sent = <<>>]_vars

\* A forced revalidation of an unexpired envelope has ended with one
\* conditional request answered 304, and the marker is gone.
C7_Witness ==
    \E p \in Slots :
        /\ fi[p].pc = "done"
        /\ fi[p].via = "304"
        /\ fi[p].needsRevalidation
        /\ now - fi[p].seen[1].timestamp <= CACHE_TTL
        /\ fi[p].sent = <<StoredEtag(fi[p].seen[1])>>
        /\ ~MarkerSet(localStorage)
        /\ localStorage[CACHE_KEY].timestamp = now

\* C8: a failing write to local storage never surfaces to the caller at any
\* write site: the icon-envelope write, the commit-cache write and the
\* marker write of clearCache all leave the calling operation to complete
\* normally.
C8_StorageFailureNeverSurfaces == uncaught = {}

(***************************************************************************)
(* Recent changes: Map, the commit cache, the commits endpoint.            *)
(***************************************************************************)
\* A Map is the sequence of its <<key, value>> entries in insertion order.
MapHas(m, k) == \E j \in 1..Len(m) : m[j][1] = k
MapGet(m, k) == m[CHOOSE j \in 1..Len(m) : m[j][1] = k][2]
MapSet(m, k, v) ==
    IF MapHas(m, k)
    THEN [j \in 1..Len(m) |-> IF m[j][1] = k THEN <<k, v>> ELSE m[j]]
    ELSE Append(m, <<k, v>>)
MapKeys(m) == {m[j][1] : j \in 1..Len(m)}

\* new Map(entries)
RECURSIVE NewMap(_)
NewMap(entries) ==
    IF entries = <<>> THEN <<>>
    ELSE LET e == entries[Len(entries)]
         IN  MapSet(NewMap(SubSeq(entries, 1, Len(entries) - 1)), e[1], e[2])

\* A getCachedCommits that takes an entry of age exactly CACHE_TTL for expired.
getCachedCommitsExpiringAtTtl(st, t) ==
    IF COMMITS_CACHE_KEY \notin DOMAIN st
    THEN [hit |-> FALSE, changes |-> <<>>, storage |-> st]
    ELSE LET data == st[COMMITS_CACHE_KEY]
         IN  IF t - data.timestamp >= CACHE_TTL
             THEN [hit |-> FALSE, changes |-> <<>>,
                   storage |-> removeItem(st, COMMITS_CACHE_KEY)]
             ELSE [hit |-> TRUE, changes |-> NewMap(data.changes), storage |-> st]

\* getCachedCommits() on the storage st at the instant t: whether it returns
\* a map, the map, and the storage it leaves (an expired entry is removed).
getCachedCommits(st, t) ==
    IF COMMITS_CACHE_KEY \notin DOMAIN st
    THEN [hit |-> FALSE, changes |-> <<>>, storage |-> st]
    ELSE LET data == st[COMMITS_CACHE_KEY]
         IN  IF t - data.timestamp > CACHE_TTL
             THEN [hit |-> FALSE, changes |-> <<>>,
                   storage |-> removeItem(st, COMMITS_CACHE_KEY)]
             ELSE [hit |-> TRUE, changes |-> NewMap(data.changes), storage |-> st]

\* setCachedCommits(changes); a throwing setItem is swallowed by the catch.
setCachedCommits(st, changes, t, writeOk) ==
    LET data == [timestamp |-> t, changes |-> changes]
    IN  IF writeOk THEN setItem(st, COMMITS_CACHE_KEY, data) ELSE st

\* The commits of the upstream repository: X and Y both touch PathA, Z alone
\* touches PathC, the padding commits touch no image.
PathC == <<"C","/","c",".","s","v","g">>

Commit(sha, date, message) ==
    [sha |-> sha, commit |-> [message |-> message, author |-> [date |-> date]]]

CommitX == Commit(<<"x">>, "2026-01-03", <<"m","1","\n","\n","b","o","d","y">>)
CommitY == Commit(<<"y">>, "2026-01-02", <<"m","2">>)
CommitZ == Commit(<<"z">>, "2026-01-01", <<"m","3","\n">>)
PadCommit(n) == Commit(<<"p", n>>, "2025-12-31", <<"p">>)

File(filename) == [filename |-> filename, status |-> "modified"]

\* The body of the detail endpoint for a commit; it may lack files.
Detail(c) ==
    IF c.sha = <<"x">> THEN [sha |-> c.sha, files |-> <<File(PathA), File(PathDoc)>>]
    ELSE IF c.sha = <<"y">> THEN [sha |-> c.sha, files |-> <<File(PathB), File(PathA)>>]
    ELSE IF c.sha = <<"z">> THEN [sha |-> c.sha, files |-> <<File(PathC)>>]
    ELSE IF c.sha[2] % 2 = 0 THEN [sha |-> c.sha]
    ELSE [sha |-> c.sha, files |-> <<File(PathDoc)>>]

\* The listings the history endpoint may serve: some padding commits, then
\* nothing or X and Y in either order and Z.
Pad(n) == [j \in 1..n |-> PadCommit(j)]
PadLengths == {0} \cup ((MaxPad - 2)..MaxPad)
Tails == {<<>>, <<CommitX, CommitY, CommitZ>>, <<CommitY, CommitX, CommitZ>>}
Listings == {Pad(n) \o tail : n \in PadLengths, tail \in Tails}
ShortListings == {<<CommitX, CommitY>>}

\* What response.json() of the history response may yield.
HistoryBodies(listings) ==
    {[parses |-> FALSE]} \cup {[parses |-> TRUE, commits |-> l] : l \in listings}

\* The responses of the commits endpoints (no conditional requests).
CommitResponses ==
    {[kind |-> "network"]} \cup {[kind |-> "http", status |-> st] : st \in {200, 404, 500}}

(***************************************************************************)
(* fetchRecentChanges.                                                     *)
(***************************************************************************)
ResolvedChanges(changes) == [ok |-> TRUE, changes |-> changes]

\* commits.slice(0, 20)
Slice(commits) ==
    SubSeq(commits, 1, IF Len(commits) < COMMIT_DETAIL_LIMIT
                       THEN Len(commits) ELSE COMMIT_DETAIL_LIMIT)

\* detail.files, or nothing when the detail has none.
DetailFiles(detail) == IF "files" \in DOMAIN detail THEN detail.files ELSE <<>>

\* An inner loop in which a later commit overwrites an earlier one's entry.
RECURSIVE RecordFilesLastWins(_, _, _)
RecordFilesLastWins(changes, files, commit) ==
    IF files = <<>> THEN changes
    ELSE LET file == Head(files)
             change == [path |-> file.filename,
                        date |-> commit.commit.author.date,
                        message |-> Split(commit.commit.message, "\n")[1]]
         IN  RecordFilesLastWins(
                 IF isImageFile(file.filename)
                 THEN MapSet(changes, file.filename, change)
                 ELSE changes,
                 Tail(files), commit)

\* for (const file of detail.files): an image file not yet in the map gets
\* an entry with the date and first message line of the listed commit.
RECURSIVE RecordFiles(_, _, _)
RecordFiles(changes, files, commit) ==
    IF files = <<>> THEN changes
    ELSE LET file == Head(files)
             change == [path |-> file.filename,
                        date |-> commit.commit.author.date,
                        message |-> Split(commit.commit.message, "\n")[1]]
         IN  RecordFiles(
                 IF isImageFile(file.filename) /\ ~MapHas(changes, file.filename)
                 THEN MapSet(changes, file.filename, change)
                 ELSE changes,
                 Tail(files), commit)

\* An outer catch that rethrows.
RecentCatchRethrowing(e) == Rejected(e)

\* The outer catch of fetchRecentChanges: return new Map().
RecentCatch(e) == ResolvedChanges(<<>>)

\* The invocation with frame f ends; the locals of the retry loop are gone.
RecentDone(f, via, result) ==
    [f EXCEPT !.pc = "done", !.result = result, !.via = via, !.lastError = Null]

\* fetchRecentChanges() up to its first await, on the storage st at the
\* instant t: the frame it reaches and the storage it leaves.
RecentChangesEntry(st, t) ==
    LET c == getCachedCommits(st, t)
    IN  [ frame |-> IF c.hit
                    THEN RecentDone(IdleRecent, "cache", ResolvedChanges(c.changes))
                    ELSE [IdleRecent EXCEPT !.pc = "history"],
          storage |-> c.storage ]

\* A loop that requests the detail of the following commit as well, without
\* awaiting the one it has just requested.
IssueDetailAndNext(f) ==
    [f EXCEPT !.i = @ + 1, !.pc = "detail",
              !.inflight = @ \cup ({f.i + 1, f.i + 2} \cap DOMAIN Slice(f.commits)),
              !.issued = @ + Cardinality({f.i + 1, f.i + 2} \cap DOMAIN Slice(f.commits))]

\* await fetch(`${GITHUB_COMMITS_URL}/${commit.sha}`) for the next commit of
\* the loop: its request is sent.
IssueDetail(f) ==
    [f EXCEPT !.i = @ + 1, !.pc = "detail",
              !.inflight = @ \cup {f.i + 1}, !.issued = @ + 1]

\* The detail request of the commit at position f.i has its response.
Completed(f) == [f EXCEPT !.inflight = @ \ {f.i}]

\* A loop that caches the map only when no detail was skipped.
AfterCommitCachingComplete(f, st, t, writeOk) ==
    IF f.i < Len(Slice(f.commits))
    THEN [ frame |-> IssueDetail(f), storage |-> st ]
    ELSE [ frame |-> RecentDone(f, "fetched", ResolvedChanges(f.changes)),
           storage |-> IF f.failed = {}
                       THEN setCachedCommits(st, f.changes, t, writeOk)
                       ELSE st ]

\* After the commit at position f.i: the loop requests the next detail, or
\* the map is cached and returned.
AfterCommit(f, st, t, writeOk) ==
    IF f.i < Len(Slice(f.commits))
    THEN [ frame |-> IssueDetail(f), storage |-> st ]
    ELSE [ frame |-> RecentDone(f, "fetched", ResolvedChanges(f.changes)),
           storage |-> setCachedCommits(st, f.changes, t, writeOk) ]

\* A call of fetchRecentChanges().
RecentChangesCall ==
    /\ frc.pc = "idle"
    /\ frc' = RecentChangesEntry(localStorage, now).frame
    /\ localStorage' = RecentChangesEntry(localStorage, now).storage
    /\ UNCHANGED <<now, ticks, fi, uncaught, ui, browser>>

\* The pending history request settles with resp (fetchWithRetry).
HistorySettles(resp) ==
    LET out == AttemptOutcome(resp)
    IN  /\ frc.pc = "history"
        /\ resp \in CommitResponses
        /\ IF out.to = "return"
           THEN frc' = [frc EXCEPT !.pc = "historyJson"]
           ELSE IF WaitsAfter(frc.attempt)
                THEN frc' = [frc EXCEPT !.pc = "backoff", !.lastError = out.lastError]
                ELSE frc' = RecentDone(frc, "catch", RecentCatch(out.lastError))
        /\ UNCHANGED <<now, ticks, localStorage, fi, uncaught, ui, browser>>

\* The backoff timer fires: the next history request is issued.
RecentBackoffElapses ==
    /\ frc.pc = "backoff"
    /\ frc' = [frc EXCEPT !.pc = "history", !.attempt = @ + 1]
    /\ UNCHANGED <<now, ticks, localStorage, fi, uncaught, ui, browser>>

\* response.json() of the history response settles with body.
HistoryJsonSettles(body, writeOk) ==
    /\ frc.pc = "historyJson"
    /\ IF body.parses
       THEN LET next == AfterCommit([frc EXCEPT !.commits = body.commits,
                                                !.lastError = Null],
                                    localStorage, now, writeOk)
            IN  /\ frc' = next.frame
                /\ localStorage' = next.storage
       ELSE /\ frc' = RecentDone(frc, "catch", RecentCatch(SyntaxError))
            /\ UNCHANGED localStorage
    /\ UNCHANGED <<now, ticks, fi, uncaught, ui, browser>>

\* A failed detail that ends the loop over the commits.
SkippedEndingLoop(f) ==
    [f EXCEPT !.failed = @ \cup {f.i}, !.i = Len(Slice(f.commits))]

\* The commit at position f.i is skipped: its detail was not fetched.
Skipped(f) == [f EXCEPT !.failed = @ \cup {f.i}]

\* The pending detail request (a plain fetch) settles with resp.
DetailSettles(resp, writeOk) ==
    /\ frc.pc = "detail"
    /\ resp \in CommitResponses
    /\ IF resp.kind = "http" /\ ResponseOk(resp.status)
       THEN /\ frc' = [Completed(frc) EXCEPT !.pc = "detailJson"]
            /\ UNCHANGED localStorage
       ELSE /\ Cardinality(frc.failed) < MaxDetailFailures
            /\ LET next == AfterCommit(Skipped(Completed(frc)), localStorage, now, writeOk)
               IN  /\ frc' = next.frame
                   /\ localStorage' = next.storage
    /\ UNCHANGED <<now, ticks, fi, uncaught, ui, browser>>

\* detailResponse.json() settles: the files are recorded, or the rejection
\* is swallowed by the inner catch.
DetailJsonSettles(parses, writeOk) ==
    /\ frc.pc = "detailJson"
    /\ LET commit == Slice(frc.commits)[frc.i]
           f == IF parses
                THEN [frc EXCEPT !.changes =
                        RecordFiles(@, DetailFiles(Detail(commit)), commit)]
                ELSE Skipped(frc)
           next == AfterCommit(f, localStorage, now, writeOk)
       IN  /\ parses \/ Cardinality(frc.failed) < MaxDetailFailures
           /\ frc' = next.frame
           /\ localStorage' = next.storage
    /\ UNCHANGED <<now, ticks, fi, uncaught, ui, browser>>

\* The caller takes the result.
RecentChangesReturn ==
    /\ frc.pc = "done"
    /\ frc' = IdleRecent
    /\ UNCHANGED <<now, ticks, localStorage, fi, uncaught, ui, browser>>

\* fetchRecentChanges alone, against every listing; the write of the commit
\* cache may throw.
NextChanges ==
    \/ RecentChangesCall
    \/ \E resp \in CommitResponses : HistorySettles(resp)
    \/ RecentBackoffElapses
    \/ \E w \in BOOLEAN : \E body \in HistoryBodies(Listings) : HistoryJsonSettles(body, w)
    \/ \E w \in BOOLEAN : \E resp \in CommitResponses : DetailSettles(resp, w)
    \/ \E w \in BOOLEAN : \E parses \in BOOLEAN : DetailJsonSettles(parses, w)
    \/ RecentChangesReturn
    \/ Tick(CACHE_TTL + 1)

SpecChanges == Init /\ [][NextChanges]_vars

(***************************************************************************)
(* App: loadIcons and handleRefresh.                                       *)
(***************************************************************************)
\* The value setError(message) stores.
ErrorText(message) == [text |-> message]

\* No loadIcons is pending and no request of an earlier one is in flight.
LoadReady ==
    /\ ~ui.pending
    /\ fi[1].pc \in {"idle", "done"}
    /\ frc.pc \in {"idle", "done"}

\* loadIcons() up to its await, on the storage st: both fetches run up to
\* their first await, fetchIcons first.
LoadIconsFrom(st) ==
    /\ ui' = [ui EXCEPT !.loading = TRUE, !.error = Null, !.pending = TRUE]
    /\ fi' = [fi EXCEPT ![1] = FetchIconsEntry(st, now)]
    /\ frc' = RecentChangesEntry(st, now).frame
    /\ localStorage' = RecentChangesEntry(st, now).storage

\* loadIcons() called by the mount effect or by the retry button of the
\* error state.
LoadIconsCall ==
    /\ LoadReady
    /\ ui.loading \/ ui.error # Null
    /\ LoadIconsFrom(localStorage)
    /\ UNCHANGED <<now, ticks, uncaught, browser>>

\* handleRefresh(): clearCache(), then loadIcons(); the refresh button is
\* disabled while loading.  A throwing clearCache ends the handler.
HandleRefresh(writeOk) ==
    /\ LoadReady
    /\ ~ui.loading
    /\ IF writeOk
       THEN /\ LoadIconsFrom(clearCache(localStorage, writeOk))
            /\ UNCHANGED uncaught
       ELSE /\ uncaught' = uncaught \cup {"clearCache", "handleRefresh"}
            /\ UNCHANGED <<localStorage, fi, frc, ui, browser>>
    /\ UNCHANGED <<now, ticks, browser>>

\* The messages of the rejections Promise.all has received.
Rejections ==
    {r.error.message : r \in {q \in {fi[1].result, frc.result} : q # Null /\ ~q.ok}}

\* A loadIcons without its finally block: a rejection leaves loading set.
LoadIconsSettlesWithoutFinally ==
    /\ ui.pending
    /\ IF Rejections # {}
       THEN \E message \in Rejections :
                ui' = [ui EXCEPT !.error = ErrorText(message), !.pending = FALSE]
       ELSE /\ fi[1].pc = "done" /\ frc.pc = "done"
            /\ ui' = [ui EXCEPT !.icons = fi[1].result.icons,
                                !.recentChanges = frc.result.changes,
                                !.loading = FALSE, !.pending = FALSE]
    /\ UNCHANGED <<now, ticks, localStorage, fi, uncaught, frc, browser>>

\* Promise.all settles: it rejects with a rejection of either fetch, or
\* resolves once both have resolved; finally loading is cleared.
LoadIconsSettles ==
    /\ ui.pending
    /\ IF Rejections # {}
       THEN \E message \in Rejections :
                ui' = [ui EXCEPT !.error = ErrorText(message),
                                 !.loading = FALSE, !.pending = FALSE]
       ELSE /\ fi[1].pc = "done" /\ frc.pc = "done"
            /\ ui' = [ui EXCEPT !.icons = fi[1].result.icons,
                                !.recentChanges = frc.result.changes,
                                !.loading = FALSE, !.pending = FALSE]
    /\ UNCHANGED <<now, ticks, localStorage, fi, uncaught, frc, browser>>

\* The application: loads and refreshes against a small repository; the
\* storage accepts every write.
NextLoad ==
    \/ LoadIconsCall
    \/ HandleRefresh(TRUE)
    \/ LoadIconsSettles
    \/ \E resp \in OverlapResponses(RequestHeader(fi[1])) : FetchSettles(1, resp, TRUE)
    \/ BackoffElapses(1)
    \/ JsonSettles(1, TRUE)
    \/ \E resp \in CommitResponses : HistorySettles(resp)
    \/ RecentBackoffElapses
    \/ \E body \in HistoryBodies(ShortListings) : HistoryJsonSettles(body, TRUE)
    \/ \E resp \in CommitResponses : DetailSettles(resp, TRUE)
    \/ \E parses \in BOOLEAN : DetailJsonSettles(parses, TRUE)
    \/ Tick(CACHE_TTL + 1)

SpecLoad == Init /\ [][NextLoad]_vars

(***************************************************************************)
(* Properties of fetchRecentChanges and loadIcons.                         *)
(***************************************************************************)
\* The history request or its body failed: the outer catch was reached.
HistoryFailed == frc.pc = "done" /\ frc.via = "catch"

\* C9: fetchRecentChanges never rejects and resolves to an empty map when
\* the commit-history request fails after its retries or its body cannot be
\* processed; so loadIcons sets an error only when fetchIcons has rejected,
\* and with that rejection's message.
C9_RecentChangesNeverRejects ==
    /\ [](frc.pc = "done" =>
            /\ frc.result.ok
            /\ HistoryFailed => frc.result.changes = <<>>)
    /\ [][ (ui.error = Null /\ ui'.error # Null) =>
            /\ fi[1].pc = "done"
            /\ ~fi[1].result.ok
            /\ ui'.error = ErrorText(fi[1].result.error.message) ]_vars

\* A load has ended without error and with icons although the history
\* request of the same load failed.
C9_Witness ==
    /\ ~ui.pending /\ ~ui.loading
    /\ ui.error = Null
    /\ ui.icons # <<>>
    /\ ui.recentChanges = <<>>
    /\ HistoryFailed
    /\ fi[1].pc = "done" /\ fi[1].via = "parsed"

\* The positions of the listing l whose detail was fetched successfully,
\* among the first 20.
Fetched(l, failed) == {j \in 1..Len(l) : j <= 20 /\ j \notin failed}

\* The image files the detail of commit c lists.
ImagesOf(c) ==
    LET files == DetailFiles(Detail(c))
    IN  {files[j].filename : j \in {n \in 1..Len(files) : isImageFile(files[n].filename)}}

\* m is the first line of the commit message msg.
IsFirstLine(m, msg) ==
    /\ Len(m) <= Len(msg)
    /\ m = SubSeq(msg, 1, Len(m))
    /\ \A j \in 1..Len(m) : m[j] # "\n"
    /\ Len(m) < Len(msg) => msg[Len(m) + 1] = "\n"

\* C10: a map built from the network has exactly one entry for each image
\* file listed in a successfully fetched detail of one of the first 20
\* commits, carrying the date and first message line of the first such
\* commit in listing order; other files and later commits add nothing.
C10_MapOfFirstTwentyCommits ==
    (frc.pc = "done" /\ frc.via # "cache") =>
        LET l == frc.commits
            m == frc.result.changes
            from == Fetched(l, frc.failed)
            keys == UNION {ImagesOf(l[j]) : j \in from}
        IN  /\ MapKeys(m) = keys
            /\ Len(m) = Cardinality(keys)
            /\ \A k \in keys :
                 LET first == CHOOSE j \in from :
                                /\ k \in ImagesOf(l[j])
                                /\ \A n \in from : k \in ImagesOf(l[n]) => j <= n
                     change == MapGet(m, k)
                 IN  /\ change.path = k
                     /\ change.date = l[first].commit.author.date
                     /\ IsFirstLine(change.message, l[first].commit.message)

\* Y, X and Z are the 19th, 20th and 21st commit of the listing and all the
\* details were fetched: PathA carries Y's date, PathC of Z has no entry.
C10_Witness ==
    /\ frc.pc = "done" /\ frc.via = "fetched"
    /\ Len(frc.commits) = 21
    /\ frc.commits[19] = CommitY /\ frc.commits[20] = CommitX
    /\ frc.commits[21] = CommitZ
    /\ frc.failed = {}
    /\ MapKeys(frc.result.changes) = {PathA, PathB}
    /\ MapGet(frc.result.changes, PathA).date = CommitY.commit.author.date

\* The detail of the commit at the current position fails in this step.
DetailFails == frc'.failed # frc.failed /\ frc'.failed # {}

\* C11: a failed detail fetch does not abort fetchRecentChanges: the map
\* built so far is kept, the remaining commits are still inspected, the
\* result holds the entries of every detail that succeeded, and a file of a
\* failed commit that a later-listed successful commit also touches carries
\* the later commit's date and message.
C11_FailedDetailIsSkipped ==
    /\ [][DetailFails =>
            /\ frc'.changes = frc.changes
            /\ frc'.via # "catch"
            /\ IF frc.i < Len(frc.commits) /\ frc.i < 20
               THEN frc'.pc = "detail" /\ frc'.i = frc.i + 1
               ELSE frc'.pc = "done" /\ frc'.result = ResolvedChanges(frc.changes)]_vars
    /\ [](frc.pc = "done" /\ frc.via = "fetched" =>
            LET l == frc.commits
                m == frc.result.changes
                ok == Fetched(l, frc.failed)
            IN  /\ \A j \in ok : ImagesOf(l[j]) \subseteq MapKeys(m)
                /\ \A j \in frc.failed : \A n \in ok : \A k \in ImagesOf(l[j]) :
                      ( /\ j < n
                        /\ k \in ImagesOf(l[n])
                        /\ \A q \in ok : q < n => k \notin ImagesOf(l[q]) )
                      => /\ MapGet(m, k).date = l[n].commit.author.date
                         /\ IsFirstLine(MapGet(m, k).message, l[n].commit.message))

\* The detail of X, listed first, failed; Y and Z were inspected after it
\* and PathA carries Y's date.
C11_Witness ==
    /\ frc.pc = "done" /\ frc.via = "fetched"
    /\ frc.commits = <<CommitX, CommitY, CommitZ>>
    /\ frc.failed = {1}
    /\ MapKeys(frc.result.changes) = {PathA, PathB, PathC}
    /\ MapGet(frc.result.changes, PathA).date = CommitY.commit.author.date

\* C12: within one fetchRecentChanges invocation at most one detail request
\* is outstanding at any time; a detail request is outstanding only after
\* the commit listing was received, it is the request of the commit the
\* loop stands at, each new request is issued when none is outstanding, and
\* at most 20 are issued in total.
C12_DetailRequestsAreSequential ==
    /\ [](/\ Cardinality(frc.inflight) <= 1
          /\ frc.issued <= 20
          /\ frc.pc \in {"history", "backoff", "historyJson"} =>
                frc.inflight = {} /\ frc.issued = 0
          /\ frc.inflight # {} =>
                /\ frc.pc = "detail"
                /\ frc.inflight = {frc.i}
                /\ frc.i <= Len(frc.commits))
    /\ [][frc'.issued > frc.issued =>
            /\ frc'.issued = frc.issued + 1
            /\ frc.pc \in {"historyJson", "detail", "detailJson"}
            /\ frc.pc = "detail" => frc.inflight \cap frc'.inflight = {}
            /\ frc.pc # "detail" => frc.inflight = {}]_vars

\* All 20 detail requests of a listing of 23 commits were issued and
\* answered, and the invocation has returned.
C12_Witness ==
    /\ frc.pc = "done" /\ frc.via = "fetched"
    /\ Len(frc.commits) = 23
    /\ frc.issued = 20
    /\ frc.inflight = {}

(***************************************************************************)
(* searchIcons.                                                            *)
(***************************************************************************)
WHITESPACE == {" ", "\t", "\n"}

\* String.prototype.trim
RECURSIVE Trim(_)
Trim(str) ==
    IF str = <<>> THEN <<>>
    ELSE IF Head(str) \in WHITESPACE THEN Trim(Tail(str))
    ELSE IF str[Len(str)] \in WHITESPACE THEN Trim(SubSeq(str, 1, Len(str) - 1))
    ELSE str

\* The collation order of the characters file names are made of: space,
\* punctuation, digits, letters; case is a difference of the last level.
COLLATION == <<" ", "_", "-", ".">> \o DIGITS \o LOWER

CollationRank(c) == CHOOSE j \in 1..Len(COLLATION) : COLLATION[j] = ToLowerChar(c)

\* The comparison of a and b by the ranks of their characters.
RECURSIVE ComparePrimary(_, _)
ComparePrimary(a, b) ==
    IF a = <<>> THEN (IF b = <<>> THEN 0 ELSE -1)
    ELSE IF b = <<>> THEN 1
    ELSE IF CollationRank(Head(a)) < CollationRank(Head(b)) THEN -1
    ELSE IF CollationRank(Head(a)) > CollationRank(Head(b)) THEN 1
    ELSE ComparePrimary(Tail(a), Tail(b))

\* Of two strings equal but for case, the one with the lower-case letter at
\* the first difference comes first.
RECURSIVE CompareCase(_, _)
CompareCase(a, b) ==
    IF a = <<>> \/ b = <<>> THEN 0
    ELSE IF Head(a) = Head(b) THEN CompareCase(Tail(a), Tail(b))
    ELSE IF Head(a) = ToLowerChar(Head(a)) THEN -1 ELSE 1

\* a.localeCompare(b)
LocaleCompare(a, b) ==
    IF ComparePrimary(a, b) # 0 THEN ComparePrimary(a, b) ELSE CompareCase(a, b)

\* A comparator that orders file names by their code units.
IconOrderByCodeUnit(a, b) ==
    IF a.isNew # b.isNew
    THEN (IF a.isNew THEN -1 ELSE 1)
    ELSE IF a.filename = b.filename THEN 0
    ELSE LET n == CHOOSE j \in 1..(Len(a.filename) + 1) :
                     /\ \A q \in 1..(j - 1) :
                            q <= Len(b.filename) /\ a.filename[q] = b.filename[q]
                     /\ \/ j > Len(a.filename) \/ j > Len(b.filename)
                        \/ a.filename[j] # b.filename[j]
             code(c) == IF c = ToLowerChar(c) /\ c \in {LOWER[j] : j \in 1..Len(LOWER)}
                        THEN 100 + CollationRank(c)
                        ELSE CollationRank(c)
         IN  IF n > Len(a.filename) THEN -1
             ELSE IF n > Len(b.filename) THEN 1
             ELSE IF code(a.filename[n]) < code(b.filename[n]) THEN -1 ELSE 1

\* The comparator of the blank-query branch: new icons first, then by name.
IconOrder(a, b) ==
    IF a.isNew # b.isNew
    THEN (IF a.isNew THEN -1 ELSE 1)
    ELSE LocaleCompare(a.filename, b.filename)

\* [...list].sort(IconOrder): Array.prototype.sort is stable.
RECURSIVE SortIcons(_)
SortIcons(list) ==
    IF list = <<>> THEN <<>>
    ELSE LET x == list[Len(list)]
             front == SortIcons(SubSeq(list, 1, Len(list) - 1))
             at == IF \E j \in 1..Len(front) : IconOrder(front[j], x) > 0
                   THEN CHOOSE j \in 1..Len(front) :
                            /\ IconOrder(front[j], x) > 0
                            /\ \A q \in 1..(j - 1) : IconOrder(front[q], x) <= 0
                   ELSE Len(front) + 1
         IN  SubSeq(front, 1, at - 1) \o <<x>> \o SubSeq(front, at, Len(front))

\* Filters chained with else: only the first active one is applied.
ApplyFiltersElseIf(icons, selectedCategory, fileTypeFilter, showNewOnly) ==
    IF selectedCategory # NoCategory
    THEN SelectSeq(icons, LAMBDA icon : icon.category = selectedCategory)
    ELSE IF fileTypeFilter # ALL
    THEN SelectSeq(icons, LAMBDA icon : icon.extension = fileTypeFilter)
    ELSE IF showNewOnly
    THEN SelectSeq(icons, LAMBDA icon : icon.isNew)
    ELSE icons

\* The three filter steps of searchIcons.
ApplyFilters(icons, selectedCategory, fileTypeFilter, showNewOnly) ==
    LET byCategory ==
            IF selectedCategory # NoCategory
            THEN SelectSeq(icons, LAMBDA icon : icon.category = selectedCategory)
            ELSE icons
        byType ==
            IF fileTypeFilter # ALL
            THEN SelectSeq(byCategory, LAMBDA icon : icon.extension = fileTypeFilter)
            ELSE byCategory
    IN  IF showNewOnly
        THEN SelectSeq(byType, LAMBDA icon : icon.isNew)
        ELSE byType

\* The matching library, reduced to what its callers rely on: a text matches
\* a pattern with a score in hundredths (0 is a perfect match), only matches
\* of at least minMatchCharLength characters count, and a search returns the
\* entries whose score does not exceed the threshold, best first, equal
\* scores in the order of the list.  Here a text that contains the pattern
\* scores 0, and one that contains the pattern but for its last character
\* scores 50.
NoMatch == 100

TextScore(text, pattern, minMatchCharLength) ==
    LET lower == ToLowerCase(text)
    IN  IF Len(pattern) < minMatchCharLength \/ pattern = <<>> THEN NoMatch
        ELSE IF Includes(lower, pattern) THEN 0
        ELSE IF /\ Len(pattern) - 1 >= minMatchCharLength
                /\ Len(pattern) - 1 >= 1
                /\ Includes(lower, SubSeq(pattern, 1, Len(pattern) - 1))
             THEN 50
             ELSE NoMatch

\* The score of a record under fuseOptions: the file name weighs more than
\* the path; minMatchCharLength is 2.
IconScore(icon, pattern) ==
    LET name == TextScore(icon.filename, pattern, 2)
        path == TextScore(icon.path, pattern, 2)
    IN  IF name = 0 THEN 0
        ELSE IF path = 0 THEN 20
        ELSE IF name = 50 \/ path = 50 THEN 50
        ELSE NoMatch

\* The entries of a result list ordered by score, stable.
RECURSIVE SortByScore(_)
SortByScore(list) ==
    IF list = <<>> THEN <<>>
    ELSE LET x == list[Len(list)]
             front == SortByScore(SubSeq(list, 1, Len(list) - 1))
             at == IF \E j \in 1..Len(front) : front[j].score > x.score
                   THEN CHOOSE j \in 1..Len(front) :
                            /\ front[j].score > x.score
                            /\ \A q \in 1..(j - 1) : front[q].score <= x.score
                   ELSE Len(front) + 1
         IN  SubSeq(front, 1, at - 1) \o <<x>> \o SubSeq(front, at, Len(front))

\* new Fuse(list, {...fuseOptions, threshold}).search(query)
FuseIcons(list, query, threshold) ==
    LET pattern == ToLowerCase(Trim(query))
        hits == SelectSeq(list, LAMBDA icon : IconScore(icon, pattern) <= threshold)
    IN  SortByScore([j \in 1..Len(hits) |->
            [ item |-> hits[j],
              score |-> IconScore(hits[j], pattern),
              matches |-> IF TextScore(hits[j].filename, pattern, 2) < NoMatch
                          THEN <<"filename", "path">> ELSE <<"path">> ]])

\* new Fuse(list, fuseOptions).search(query): threshold 0.4
FuseSearch(list, query) == FuseIcons(list, query, 40)

\* new Fuse(strings, {threshold}).search(query): minMatchCharLength is 1.
FuseStrings(list, query, threshold) ==
    LET pattern == ToLowerCase(Trim(query))
        hits == SelectSeq(list, LAMBDA text : TextScore(text, pattern, 1) <= threshold)
    IN  SortByScore([j \in 1..Len(hits) |->
            [item |-> hits[j], score |-> TextScore(hits[j], pattern, 1)]])

\* A comparator that takes scores exactly 0.1 apart for similar.
ResultOrderInclusive(a, b) ==
    LET scoreDiff == IF a.score >= b.score THEN a.score - b.score ELSE b.score - a.score
    IN  IF scoreDiff <= 10 /\ a.item.isNew # b.item.isNew
        THEN (IF a.item.isNew THEN -1 ELSE 1)
        ELSE 0

\* The comparator of the query branch: within 0.1 of score, new icons first.
ResultOrder(a, b) ==
    LET scoreDiff == IF a.score >= b.score THEN a.score - b.score ELSE b.score - a.score
    IN  IF scoreDiff < 10 /\ a.item.isNew # b.item.isNew
        THEN (IF a.item.isNew THEN -1 ELSE 1)
        ELSE 0

\* results.sort(ResultOrder), stable.
RECURSIVE SortResults(_)
SortResults(list) ==
    IF list = <<>> THEN <<>>
    ELSE LET x == list[Len(list)]
             front == SortResults(SubSeq(list, 1, Len(list) - 1))
             at == IF \E j \in 1..Len(front) : ResultOrder(front[j], x) > 0
                   THEN CHOOSE j \in 1..Len(front) :
                            /\ ResultOrder(front[j], x) > 0
                            /\ \A q \in 1..(j - 1) : ResultOrder(front[q], x) <= 0
                   ELSE Len(front) + 1
         IN  SubSeq(front, 1, at - 1) \o <<x>> \o SubSeq(front, at, Len(front))

\* searchIcons(icons, searchQuery, selectedCategory, fileTypeFilter,
\* showNewOnly)
searchIcons(icons, searchQuery, selectedCategory, fileTypeFilter, showNewOnly) ==
    LET filtered == ApplyFilters(icons, selectedCategory, fileTypeFilter, showNewOnly)
    IN  IF Trim(searchQuery) = <<>>
        THEN LET sorted == SortIcons(filtered)
             IN  [j \in 1..Len(sorted) |-> [item |-> sorted[j]]]
        ELSE SortResults(FuseSearch(filtered, searchQuery))

(***************************************************************************)
(* App: the search and filter handlers, the dark-mode toggle, a page load. *)
(***************************************************************************)
\* handleSearchChange(query), with the URL effect that follows the render.
HandleSearchChange(query) ==
    /\ ui' = [ui EXCEPT !.searchQuery = query,
                        !.visibleCount = PAGE_SIZE,
                        !.selectedIndex = -1,
                        !.showNewOnly = IF Trim(query) # <<>> /\ @ THEN FALSE ELSE @]
    /\ browser' = [browser EXCEPT !.search = setUrlParams(query, ui.selectedCategory)]
    /\ UNCHANGED <<now, ticks, localStorage, fi, uncaught, frc>>

\* handleCategoryChange(category), with the URL effect.
HandleCategoryChange(category) ==
    /\ ui' = [ui EXCEPT !.selectedCategory = category,
                        !.visibleCount = PAGE_SIZE,
                        !.selectedIndex = -1]
    /\ browser' = [browser EXCEPT !.search = setUrlParams(ui.searchQuery, category)]
    /\ UNCHANGED <<now, ticks, localStorage, fi, uncaught, frc>>

\* handleFileTypeChange(filter)
HandleFileTypeChange(filter) ==
    /\ ui' = [ui EXCEPT !.fileTypeFilter = filter,
                        !.visibleCount = PAGE_SIZE,
                        !.selectedIndex = -1]
    /\ UNCHANGED <<now, ticks, localStorage, fi, uncaught, frc, browser>>

\* onShowNewOnlyChange = setShowNewOnly
SetShowNewOnly(value) ==
    /\ ui' = [ui EXCEPT !.showNewOnly = value]
    /\ UNCHANGED <<now, ticks, localStorage, fi, uncaught, frc, browser>>

\* const searchResults = useMemo(() => searchIcons(...), [...])
SearchResults ==
    searchIcons(ui.icons, ui.searchQuery, ui.selectedCategory,
                ui.fileTypeFilter, ui.showNewOnly)

\* The listings the search is exercised on: five images in two orders and a
\* short listing; two file names differ by case only in their first letter
\* from their neighbours in the order.
PathS1 == <<"B","/","b",".","p","n","g">>
PathS2 == <<"A","/","a",".","s","v","g">>
PathS3 == <<"A","/","l","e","g","a","c","y","/","C",".","p","n","g">>
PathS4 == <<"B","/","2","0","1","6","-","2","0","1","9","/","a",".","p","n","g">>
PathS5 == <<"A","/","B",".","s","v","g">>

SearchTrees ==
    { <<Blob(PathS1, 1), Blob(PathS2, 2), Blob(PathS3, 3), Blob(PathS4, 4), Blob(PathS5, 5)>>,
      <<Blob(PathS5, 5), Blob(PathS4, 4), Blob(PathS3, 3), Blob(PathS2, 2), Blob(PathS1, 1)>>,
      <<Blob(PathS3, 3), Blob(PathS1, 1), Blob(PathDoc, 9)>> }

Queries == {<<>>, <<" ">>, <<"\t", " ">>, <<"a">>}
Categories == {NoCategory, <<"A">>, <<"B">>, <<"Z">>}
FileTypes == {ALL, PNG, SVG}

\* App after a load that has delivered one of the listings.
InitSearch ==
    /\ now = 0
    /\ ticks = 0
    /\ localStorage = <<>>
    /\ fi = [p \in Slots |-> IdleFrame]
    /\ uncaught = {}
    /\ frc = IdleRecent
    /\ browser = InitialBrowser
    /\ \E tree \in SearchTrees :
          ui = [InitialUi EXCEPT !.icons = parseIconFiles(tree, now),
                                 !.loading = FALSE]

NextSearch ==
    \/ \E query \in Queries : HandleSearchChange(query)
    \/ \E category \in Categories : HandleCategoryChange(category)
    \/ \E filter \in FileTypes : HandleFileTypeChange(filter)
    \/ \E value \in BOOLEAN : SetShowNewOnly(value)

SpecSearch == InitSearch /\ [][NextSearch]_vars

(***************************************************************************)
(* Properties of searchIcons.                                              *)
(***************************************************************************)
\* The records of a result list.
Items(results) == {results[j].item : j \in 1..Len(results)}

\* The records of the loaded list that a filter selects when it is the only
\* active one.
InCategory == {ui.icons[j] : j \in {n \in 1..Len(ui.icons) :
                    ui.selectedCategory = NoCategory
                    \/ ui.icons[n].category = ui.selectedCategory}}
OfFileType == {ui.icons[j] : j \in {n \in 1..Len(ui.icons) :
                    ui.fileTypeFilter = ALL
                    \/ ui.icons[n].extension = ui.fileTypeFilter}}
NewOnes == {ui.icons[j] : j \in {n \in 1..Len(ui.icons) :
                    ~ui.showNewOnly \/ ui.icons[n].isNew}}

\* C13: with an empty query the records searchIcons returns are exactly the
\* intersection of what each active filter selects alone, each returned
\* once; with only showNewOnly active they are exactly the records with
\* isNew = true.
C13_FiltersComposeByIntersection ==
    Trim(ui.searchQuery) = <<>> =>
        /\ Items(SearchResults) = InCategory \cap OfFileType \cap NewOnes
        /\ Len(SearchResults) = Cardinality(Items(SearchResults))
        /\ (ui.selectedCategory = NoCategory /\ ui.fileTypeFilter = ALL /\ ui.showNewOnly)
           => Items(SearchResults) =
                {ui.icons[j] : j \in {n \in 1..Len(ui.icons) : ui.icons[n].isNew}}

\* All three filters are active and select two of the five records; each
\* filter alone selects more.
C13_Witness ==
    /\ Trim(ui.searchQuery) = <<>>
    /\ Len(ui.icons) = 5
    /\ ui.selectedCategory = <<"A">> /\ ui.fileTypeFilter = SVG /\ ui.showNewOnly
    /\ Cardinality(Items(SearchResults)) = 2
    /\ Cardinality(InCategory) = 3
    /\ Cardinality(OfFileType) = 2
    /\ Cardinality(NewOnes) = 3

\* C14: for an empty or whitespace-only query the results are the filtered
\* records with all new ones before all others, each group in ascending
\* order of file name (by collation: case counts last), none carries match
\* metadata, and the result is that of the empty query.
C14_BlankQueryOrder ==
    Trim(ui.searchQuery) = <<>> =>
        LET r == SearchResults
        IN  /\ \A j \in 1..Len(r) : DOMAIN r[j] = {"item"}
            /\ \A j \in 1..Len(r) : \A n \in (j + 1)..Len(r) :
                  /\ r[n].item.isNew => r[j].item.isNew
                  /\ r[j].item.isNew = r[n].item.isNew
                     => LocaleCompare(r[j].item.filename, r[n].item.filename) <= 0
            /\ r = searchIcons(ui.icons, <<>>, ui.selectedCategory,
                               ui.fileTypeFilter, ui.showNewOnly)

\* A whitespace-only query over the five records, unfiltered: three new
\* ones, a.svg before b.png before B.svg, then the two legacy ones.
C14_Witness ==
    /\ ui.searchQuery = <<"\t", " ">>
    /\ Len(SearchResults) = 5
    /\ [j \in 1..5 |-> SearchResults[j].item.path]
         = <<PathS2, PathS1, PathS5, PathS4, PathS3>>

(***************************************************************************)
(* Parsing single paths: a listing response is about to be read.           *)
(***************************************************************************)
\* The instants of parsing: in the epoch year, on its last day, and in the
\* year after.
ParseTimes == {0, (364 - EpochDay) * DAY_MS, (365 - EpochDay) * DAY_MS}

\* fetchIcons has received a 200 response whose body is the tree of one of
\* ParsePaths; nothing is cached.
InitParse ==
    /\ now \in ParseTimes
    /\ ticks = 0
    /\ localStorage = <<>>
    /\ uncaught = {}
    /\ frc = IdleRecent
    /\ ui = InitialUi
    /\ browser = InitialBrowser
    /\ \E v \in DOMAIN ParsePaths :
          fi = [p \in Slots |->
                  IF p = 1
                  THEN [IdleFrame EXCEPT
                          !.pc = "json", !.needsRevalidation = TRUE,
                          !.sent = <<Undefined>>,
                          !.response = [kind |-> "http", status |-> 200,
                                        etag |-> NullString, body |-> v]]
                  ELSE IdleFrame]

NextParse ==
    \/ JsonSettles(1, TRUE)
    \/ FetchIconsReturn(1)

SpecParse == InitParse /\ [][NextParse]_vars

(***************************************************************************)
(* Properties of parseIconFiles.                                           *)
(***************************************************************************)
\* The records a completed parse returned.
ParsedIcons ==
    IF fi[1].pc = "done" /\ fi[1].via = "parsed"
    THEN {fi[1].result.icons[i] : i \in 1..Len(fi[1].result.icons)}
    ELSE {}

\* The path spells "legacy" somewhere, in any mix of cases.
HasLegacyWord(path) ==
    \E i \in 1..(Len(path) - 5) :
        <<ToLowerChar(path[i]), ToLowerChar(path[i + 1]), ToLowerChar(path[i + 2]),
          ToLowerChar(path[i + 3]), ToLowerChar(path[i + 4]), ToLowerChar(path[i + 5])>>
            = <<"l","e","g","a","c","y">>

\* The positions where a group of four digits, a dash and four digits starts.
GroupStarts(path) == {i \in 1..Len(path) : YearPatternAt(path, i)}

\* The second number of the group starting at i.
EndYearAt(path, i) ==
    1000 * DigitValue(path[i + 5]) + 100 * DigitValue(path[i + 6])
        + 10 * DigitValue(path[i + 7]) + DigitValue(path[i + 8])

\* The calendar year of the instant t.
YearOf(t) == EpochYear + ((EpochDay + (t \div DAY_MS)) \div 365)

\* C15: a record is legacy exactly when its path contains "legacy" in any
\* case, or else when the second number of the first four-digit, dash,
\* four-digit group of the path is strictly below the current year; the
\* keyword wins over a range ending in the future, groups after the first are
\* ignored, and a range ending in the current year or later is not legacy.
C15_LegacyByWordOrFirstRange ==
    \A icon \in ParsedIcons :
        /\ icon.isLegacy =
              (\/ HasLegacyWord(icon.path)
               \/ /\ GroupStarts(icon.path) # {}
                  /\ \E i \in GroupStarts(icon.path) :
                        /\ \A j \in GroupStarts(icon.path) : i <= j
                        /\ EndYearAt(icon.path, i) < YearOf(now))
        /\ (HasLegacyWord(icon.path) => icon.isLegacy)
        /\ (/\ ~HasLegacyWord(icon.path)
            /\ \E i \in GroupStarts(icon.path) :
                  /\ \A j \in GroupStarts(icon.path) : i <= j
                  /\ EndYearAt(icon.path, i) >= YearOf(now))
              => ~icon.isLegacy

\* A path whose first range ends in the future and whose second range ended
\* long ago was parsed as not legacy, in the year the range of another path
\* would end.
C15_Witness ==
    \E icon \in ParsedIcons :
        /\ icon.path = ParsePaths.futureThenOld
        /\ ~icon.isLegacy
        /\ Cardinality(GroupStarts(icon.path)) = 2
        /\ YearOf(now) = EpochYear

\* C16: the category of a record is the first segment of its path when the
\* path has a slash, and "Other" when the image sits at the root of the
\* repository (its path has no slash).
C16_RootImagesAreOther ==
    \A icon \in ParsedIcons :
        IF \E i \in 1..Len(icon.path) : icon.path[i] = "/"
        THEN \E i \in 1..Len(icon.path) :
                /\ icon.path[i] = "/"
                /\ \A j \in 1..(i - 1) : icon.path[j] # "/"
                /\ icon.category = SubSeq(icon.path, 1, i - 1)
        ELSE icon.category = <<"O","t","h","e","r">>

(***************************************************************************)
(* The two caches side by side: fetchIcons and fetchRecentChanges are      *)
(* called independently of each other, every request succeeds, and time    *)
(* passes by the TTL or by one millisecond.                                *)
(***************************************************************************)
\* The listing endpoint answers with a tagged listing, or with 304 to a
\* conditional request.
HealthyResponses(header) ==
    {r \in Responses(header) :
        /\ r.kind = "http"
        /\ \/ r.status = 304
           \/ r.status = 200 /\ r.etag # NullString}

CommitOk == [kind |-> "http", status |-> 200]

NextTtl ==
    \/ FetchIconsCall(1)
    \/ \E resp \in HealthyResponses(RequestHeader(fi[1])) : FetchSettles(1, resp, TRUE)
    \/ JsonSettles(1, TRUE)
    \/ FetchIconsReturn(1)
    \/ RecentChangesCall
    \/ HistorySettles(CommitOk)
    \/ \E l \in ShortListings : HistoryJsonSettles([parses |-> TRUE, commits |-> l], TRUE)
    \/ DetailSettles(CommitOk, TRUE)
    \/ DetailJsonSettles(TRUE, TRUE)
    \/ RecentChangesReturn
    \/ \E d \in {1, CACHE_TTL} : Tick(d)

SpecTtl == Init /\ [][NextTtl]_vars

\* fetchRecentChanges begins in this step.
RecentBegins == frc.pc = "idle" /\ frc'.pc # "idle"

\* C17: the icon envelope and the commit cache are expired exactly when
\* now - timestamp > 7 days: a call made when the age is 7 days or less is
\* served from the cache without a request, for fetchIcons and for
\* fetchRecentChanges alike, and a call made one millisecond later (or any
\* time after) goes to the network.
C17_BothCachesExpireAfterTtl ==
    [][/\ ( /\ Begins(1)
            /\ HasEnvelope(localStorage)
            /\ ~MarkerSet(localStorage) )
          => IF now - localStorage[CACHE_KEY].timestamp <= 7 * DAY_MS
             THEN /\ fi'[1].pc = "done"
                  /\ fi'[1].via = "cache"
                  /\ fi'[1].sent = <<>>
                  /\ fi'[1].result = Resolved(localStorage[CACHE_KEY].icons)
             ELSE /\ fi'[1].pc = "fetch"
                  /\ Len(fi'[1].sent) = 1
       /\ ( /\ RecentBegins
            /\ COMMITS_CACHE_KEY \in DOMAIN localStorage )
          => IF now - localStorage[COMMITS_CACHE_KEY].timestamp <= 7 * DAY_MS
             THEN /\ frc'.pc = "done"
                  /\ frc'.via = "cache"
                  /\ frc'.issued = 0
                  /\ frc'.result =
                        ResolvedChanges(NewMap(localStorage[COMMITS_CACHE_KEY].changes))
             ELSE frc'.pc = "history"]_vars

\* Both functions have just answered from caches that are exactly 7 days
\* old, with a non-empty list and a non-empty map.
C17_Witness ==
    /\ fi[1].pc = "done" /\ fi[1].via = "cache"
    /\ frc.pc = "done" /\ frc.via = "cache"
    /\ HasEnvelope(localStorage)
    /\ COMMITS_CACHE_KEY \in DOMAIN localStorage
    /\ now - localStorage[CACHE_KEY].timestamp = 7 * DAY_MS
    /\ now - localStorage[COMMITS_CACHE_KEY].timestamp = 7 * DAY_MS
    /\ Len(fi[1].result.icons) > 0
    /\ frc.result.changes # <<>>

(***************************************************************************)
(* Overlapping invocations of fetchIcons.                                  *)
(***************************************************************************)
\* The upstream tree changes once, when time first passes: a response with
\* the first tree was produced before every response with the second.
UpstreamVersion == IF ticks = 0 THEN "v1" ELSE "v2"

\* The listing endpoint is healthy: it serves the current tree with its etag,
\* and 304 to a request that carries that etag.
RaceResponses(header) ==
    {r \in Responses(header) :
        /\ r.kind = "http"
        /\ \/ r.status = 304 /\ header = EtagOf(UpstreamVersion)
           \/ r.status = 200 /\ r.body = UpstreamVersion
                             /\ r.etag = EtagOf(UpstreamVersion)}

NextRace ==
    \/ \E p \in Slots : FetchIconsCall(p)
    \/ \E p \in Slots : \E resp \in RaceResponses(RequestHeader(fi[p])) :
            FetchSettles(p, resp, TRUE)
    \/ \E p \in Slots : JsonSettles(p, TRUE)
    \/ \E p \in Slots : FetchIconsReturn(p)
    \/ ClearCacheCall(TRUE)
    \/ \E d \in {1, CACHE_TTL + 1} : Tick(d)

SpecRace == Init /\ [][NextRace]_vars

\* The stored envelope, <<>> when there is none.
Envelope(st) == IF CACHE_KEY \in DOMAIN st THEN <<st[CACHE_KEY]>> ELSE <<>>

\* Slot p stores a parsed listing in this step.
StoresListing(p) == fi[p].pc = "json" /\ fi'[p].via = "parsed"

\* Slot p receives a 304 in this step and writes back the envelope it read
\* at its start.
StoresRevalidated(p) ==
    fi[p].pc = "fetch" /\ fi'[p].via = "304" /\ fi[p].seen # <<>>

\* C18: fetchIcons has no in-flight guard.  An invocation that begins while
\* the cache is absent, expired or force-flagged issues its own listing
\* request whatever the other invocation is doing; each invocation that
\* parses a listing writes the cache with what it received; so the envelope
\* stored after both have completed is the one written last, whichever
\* response was received first (a 304 writes back the list read at the start
\* of its invocation, and no other step replaces the stored list).
C18_OverlappingFetchesLastWriteWins ==
    [][\A p \in Slots :
          /\ ( /\ Begins(p)
               /\ \/ ~HasEnvelope(localStorage)
                  \/ MarkerSet(localStorage)
                  \/ now - localStorage[CACHE_KEY].timestamp > CACHE_TTL )
             => /\ fi'[p].pc = "fetch"
                /\ Len(fi'[p].sent) = 1
                /\ \A q \in Slots \ {p} : fi'[q] = fi[q]
          /\ StoresListing(p)
             => /\ HasEnvelope(localStorage')
                /\ localStorage'[CACHE_KEY].icons = fi'[p].result.icons
                /\ localStorage'[CACHE_KEY].icons
                      = parseIconFiles(Tree(fi[p].response.body), now)
                /\ localStorage'[CACHE_KEY].timestamp = now
          /\ StoresRevalidated(p)
             => /\ HasEnvelope(localStorage')
                /\ localStorage'[CACHE_KEY].icons = fi[p].seen[1].icons
                /\ localStorage'[CACHE_KEY].timestamp = now
          /\ ( /\ HasEnvelope(localStorage)
               /\ \A q \in Slots : ~StoresListing(q) /\ ~StoresRevalidated(q) )
             => /\ HasEnvelope(localStorage')
                /\ localStorage'[CACHE_KEY].icons = localStorage[CACHE_KEY].icons]_vars

\* Both invocations began with an empty cache, each sent one request and
\* each parsed and stored a listing: the first received the tree served
\* before the upstream changed, the second the tree served after, and the
\* stored envelope holds the older tree: the older response was written last.
C18_Witness ==
    /\ \A p \in Slots : fi[p].pc = "done" /\ fi[p].via = "parsed" /\ Len(fi[p].sent) = 1
    /\ fi[1].seen = <<>> /\ fi[2].seen = <<>>
    /\ fi[1].result = Resolved(parseIconFiles(Tree("v1"), now))
    /\ fi[2].result = Resolved(parseIconFiles(Tree("v2"), now))
    /\ fi[1].result # fi[2].result
    /\ Envelope(localStorage) # <<>>
    /\ localStorage[CACHE_KEY].icons = fi[1].result.icons
    /\ localStorage[CACHE_KEY].timestamp > 0

(***************************************************************************)
(* App across page loads: the dark-mode toggle, the system colour scheme,  *)
(* the search and filter handlers and the URL.  The storage accepts every  *)
(* write and the network does not answer.                                  *)
(***************************************************************************)
\* The first render of App on the page br with the storage st, followed by
\* its mount effects in their order: the dark-mode effect stores the value,
\* loadIcons starts both fetches, the URL effect rewrites the URL.
Mount(br, st, t) ==
    LET first == AppInitialState(br, st)
        dark == setItem(st, DARK_MODE_KEY, BoolString(first.darkMode))
    IN  [ ui |-> [first EXCEPT !.pending = TRUE],
          fi |-> [p \in Slots |-> IF p = 1 THEN FetchIconsEntry(dark, t)
                                           ELSE IdleFrame],
          frc |-> RecentChangesEntry(dark, t).frame,
          storage |-> RecentChangesEntry(dark, t).storage,
          browser |-> [br EXCEPT
                         !.search = setUrlParams(first.searchQuery,
                                                 first.selectedCategory),
                         !.loads = @ + 1] ]

\* The page is loaded again: the component state starts afresh from the URL
\* and the storage.
AppStart ==
    /\ browser.loads < MaxLoads
    /\ LET m == Mount(browser, localStorage, now)
       IN  /\ ui' = m.ui
           /\ fi' = m.fi
           /\ frc' = m.frc
           /\ localStorage' = m.storage
           /\ browser' = m.browser
    /\ UNCHANGED <<now, ticks, uncaught>>

\* onToggleDarkMode = () => setDarkMode(!darkMode), with the dark-mode effect
\* that follows the render.
ToggleDarkMode ==
    /\ ui' = [ui EXCEPT !.darkMode = ~@]
    /\ localStorage' = setItem(localStorage, DARK_MODE_KEY, BoolString(~ui.darkMode))
    /\ browser' = [browser EXCEPT !.toggled = TRUE]
    /\ UNCHANGED <<now, ticks, fi, uncaught, frc>>

\* The user or the operating system switches the colour scheme; the page does
\* not listen for the change.
SystemPreferenceChanges ==
    /\ browser' = [browser EXCEPT !.prefersDark = ~@]
    /\ UNCHANGED <<now, ticks, localStorage, fi, uncaught, frc, ui>>

AppQueries == {<<>>, <<" ">>, <<"a"," ","b">>, <<"a","+","b">>, <<"a","&","b","=","c">>}
AppCategories == {NoCategory, <<"A">>, <<"A"," ","%","/","?">>}

\* The URLs the page is first opened with: none, one written by the page,
\* one with a parameter the page does not know.
OpenedUrls ==
    {<<>>, setUrlParams(<<"a"," ","b">>, <<"A">>), <<"?","x","=","1">>}

\* The first load of the page, with an empty storage.
InitApp ==
    /\ now = 0
    /\ ticks = 0
    /\ uncaught = {}
    /\ \E search \in OpenedUrls : \E prefersDark \in BOOLEAN :
          LET m == Mount([search |-> search, prefersDark |-> prefersDark,
                          toggled |-> FALSE, loads |-> 0], <<>>, now)
          IN  /\ ui = m.ui
              /\ fi = m.fi
              /\ frc = m.frc
              /\ localStorage = m.storage
              /\ browser = m.browser

NextApp ==
    \/ AppStart
    \/ ToggleDarkMode
    \/ SystemPreferenceChanges
    \/ \E query \in AppQueries : HandleSearchChange(query)
    \/ \E category \in AppCategories : HandleCategoryChange(category)
    \/ \E filter \in FileTypes : HandleFileTypeChange(filter)
    \/ \E value \in BOOLEAN : SetShowNewOnly(value)

SpecApp == InitApp /\ [][NextApp]_vars

\* C19: dark mode follows the system preference until the user toggles it:
\* at every start of the page at which the user has never used the toggle,
\* the initial value equals the system preference at that start; once the
\* user has toggled, the toggled value is the initial value of later starts.
C19_DarkModeFollowsSystemUntilToggled ==
    [][browser'.loads # browser.loads
          => IF browser.toggled
             THEN ui'.darkMode = ui.darkMode
             ELSE ui'.darkMode = browser.prefersDark]_vars

\* C20: the search query, the category, the file-type filter and the
\* new-only filter persist in the URL: a page started from the current URL
\* has all four as they are now.
C20_UrlRestoresQueryAndFilters ==
    LET restored == AppInitialState(browser, localStorage)
    IN  /\ restored.searchQuery = ui.searchQuery
        /\ restored.selectedCategory = ui.selectedCategory
        /\ restored.fileTypeFilter = ui.fileTypeFilter
        /\ restored.showNewOnly = ui.showNewOnly

(***************************************************************************)
(* fetchIcons across the turn of the year: a listing with one dated path   *)
(* is about to be read near the end of the year; later calls are answered  *)
(* from the cache, by a 304, or not at all.                                *)
(***************************************************************************)
\* The dated paths: ranges that ended, end this year, end next year, and the
\* keyword.
DatedPaths == {"old", "thisYear", "nextYear", "wordAndFuture"}

\* fetchIcons has received a tagged 200 response whose body is the tree of
\* one of the dated paths; nothing is cached.
InitYear ==
    /\ now \in ParseTimes
    /\ ticks = 0
    /\ localStorage = <<>>
    /\ uncaught = {}
    /\ frc = IdleRecent
    /\ ui = InitialUi
    /\ browser = InitialBrowser
    /\ \E v \in DatedPaths :
          fi = [p \in Slots |->
                  IF p = 1
                  THEN [IdleFrame EXCEPT
                          !.pc = "json", !.needsRevalidation = TRUE,
                          !.sent = <<Undefined>>,
                          !.response = [kind |-> "http", status |-> 200,
                                        etag |-> "e1", body |-> v]]
                  ELSE IdleFrame]

\* The listing endpoint fails to connect, or answers 304 to a conditional
\* request.
YearResponses(header) ==
    {r \in Responses(header) : r.kind = "network" \/ r.status = 304}

NextYear ==
    \/ JsonSettles(1, TRUE)
    \/ FetchIconsReturn(1)
    \/ FetchIconsCall(1)
    \/ \E resp \in YearResponses(RequestHeader(fi[1])) : FetchSettles(1, resp, TRUE)
    \/ BackoffElapses(1)
    \/ \E d \in {DAY_MS, CACHE_TTL + 1} : Tick(d)

SpecYear == InitYear /\ [][NextYear]_vars

\* The legacy rule for a path, evaluated with the calendar year of instant t.
LegacyRule(path, t) ==
    \/ HasLegacyWord(path)
    \/ \E i \in GroupStarts(path) :
          /\ \A j \in GroupStarts(path) : i <= j
          /\ EndYearAt(path, i) < YearOf(t)

\* C21: every record of the list fetchIcons returns -- freshly parsed, served
\* from an unexpired cache, returned after a 304 or returned as the fallback
\* of a failure -- has isLegacy equal to the legacy rule evaluated with the
\* calendar year at the time of the call (the instant the list is returned),
\* and isNew equal to the negation of isLegacy.
C21_LegacyFlagIsCurrent ==
    [][(fi[1].pc # "done" /\ fi'[1].pc = "done" /\ fi'[1].result.ok)
          => \A i \in 1..Len(fi'[1].result.icons) :
                LET icon == fi'[1].result.icons[i]
                IN  /\ icon.isLegacy = LegacyRule(icon.path, now)
                    /\ icon.isNew = ~icon.isLegacy]_vars

(***************************************************************************)
(* The ordering of ranked results: the matcher has returned a ranked list  *)
(* and searchIcons sorts it.                                               *)
(***************************************************************************)
\* The steps by which the score grows from one ranked result to the next,
\* in hundredths.
ScoreGaps == {0, 5, 10}

RECURSIVE ScoreAt(_, _)
ScoreAt(gaps, k) == IF k = 1 THEN 0 ELSE ScoreAt(gaps, k - 1) + gaps[k - 1]

\* The ranked lists of n results: scores ascending from 0 by the gaps, any
\* mix of new and legacy items.
RankedLists(n) ==
    IF n = 0 THEN {<<>>}
    ELSE { [k \in 1..n |->
              [ item |-> [path |-> <<"i", k>>, isNew |-> news[k]],
                score |-> ScoreAt(gaps, k),
                matches |-> <<"filename">> ]] :
           gaps \in [1..(n - 1) -> ScoreGaps], news \in [1..n -> BOOLEAN] }

\* The matcher has answered; the list is not yet sorted.
InitRank ==
    /\ now = 0
    /\ ticks = 0
    /\ localStorage = <<>>
    /\ fi = [p \in Slots |-> IdleFrame]
    /\ uncaught = {}
    /\ frc = IdleRecent
    /\ browser = InitialBrowser
    /\ \E n \in 0..MaxResults : \E ranked \in RankedLists(n) :
          ui = [ranked |-> ranked] @@ InitialUi

\* return results.sort(...)
RankSorts ==
    /\ "searchResults" \notin DOMAIN ui
    /\ ui' = [searchResults |-> SortResults(ui.ranked)] @@ ui
    /\ UNCHANGED <<now, ticks, localStorage, fi, uncaught, frc, browser>>

NextRank == RankSorts

SpecRank == InitRank /\ [][NextRank]_vars

\* The positions of the ranked result k in the sorted list.
PositionsOf(k) ==
    {q \in 1..Len(ui.searchResults) : ui.searchResults[q] = ui.ranked[k]}

\* Two ranked results are similar and exactly one of them is new.
NewBreaksTie(a, b) ==
    /\ a.score - b.score < 10
    /\ b.score - a.score < 10
    /\ a.item.isNew # b.item.isNew

CODE_UNITS ==
    <<"\t", " ", "%", "&", "+", "-", ".", "/">> \o DIGITS
        \o <<"=", "?">> \o UPPER \o <<"_">> \o LOWER

CodeUnit(c) == CHOOSE j \in 1..Len(CODE_UNITS) : CODE_UNITS[j] = c

\* a < b in the default order of Array.prototype.sort.
RECURSIVE CodeUnitLess(_, _)
CodeUnitLess(a, b) ==
    IF b = <<>> THEN FALSE
    ELSE IF a = <<>> THEN TRUE
    ELSE IF CodeUnit(Head(a)) # CodeUnit(Head(b))
         THEN CodeUnit(Head(a)) < CodeUnit(Head(b))
         ELSE CodeUnitLess(Tail(a), Tail(b))

\* Array.from(set).sort()
RECURSIVE SortStrings(_)
SortStrings(set) ==
    IF set = {} THEN <<>>
    ELSE LET least == CHOOSE a \in set : \A b \in set \ {a} : CodeUnitLess(a, b)
         IN  <<least>> \o SortStrings(set \ {least})

\* getCategories(icons)
getCategories(icons) == SortStrings({icons[j].category : j \in 1..Len(icons)})

\* A value that is not null.
Some(v) == [value |-> v]

NoSuggestions == [suggestion |-> Null, suggestedCategory |-> Null]

\* A getSearchSuggestions that looks for the closest match inside the selected
\* category only.
getSearchSuggestionsInCategory(icons, searchQuery, selectedCategory) ==
    IF Trim(searchQuery) = <<>> THEN NoSuggestions
    ELSE LET searchPool ==
                 IF selectedCategory # NoCategory
                 THEN SelectSeq(icons, LAMBDA icon : icon.category = selectedCategory)
                 ELSE icons
             results == FuseIcons(searchPool, searchQuery, 60)
             categoryResults == FuseStrings(getCategories(icons), searchQuery, 40)
         IN  IF Len(results) > 0
             THEN LET topResult == results[1].item
                  IN  IF /\ selectedCategory # NoCategory
                         /\ topResult.category # selectedCategory
                      THEN [ suggestion |-> Some(topResult.filename),
                             suggestedCategory |-> Some(topResult.category) ]
                      ELSE [ suggestion |-> Some(topResult.filename),
                             suggestedCategory |-> Null ]
             ELSE IF Len(categoryResults) > 0
                  THEN [ suggestion |-> Null,
                         suggestedCategory |-> Some(categoryResults[1].item) ]
                  ELSE NoSuggestions

\* getSearchSuggestions(icons, searchQuery, selectedCategory)
getSearchSuggestions(icons, searchQuery, selectedCategory) ==
    IF Trim(searchQuery) = <<>> THEN NoSuggestions
    ELSE LET searchPool == icons
             results == FuseIcons(searchPool, searchQuery, 60)
             categoryResults == FuseStrings(getCategories(icons), searchQuery, 40)
         IN  IF Len(results) > 0
             THEN LET topResult == results[1].item
                  IN  IF /\ selectedCategory # NoCategory
                         /\ topResult.category # selectedCategory
                      THEN [ suggestion |-> Some(topResult.filename),
                             suggestedCategory |-> Some(topResult.category) ]
                      ELSE [ suggestion |-> Some(topResult.filename),
                             suggestedCategory |-> Null ]
             ELSE IF Len(categoryResults) > 0
                  THEN [ suggestion |-> Null,
                         suggestedCategory |-> Some(categoryResults[1].item) ]
                  ELSE NoSuggestions

\* const { suggestion, suggestedCategory } = useMemo(...)
Suggestions ==
    IF Len(SearchResults) > 0 \/ Trim(ui.searchQuery) = <<>>
    THEN NoSuggestions
    ELSE getSearchSuggestions(ui.icons, ui.searchQuery, ui.selectedCategory)

\* The queries typed: blank ones, a letter that names a category only, a
\* word of one path, the same word with a typo, and one that matches nothing.
SuggestQueries ==
    {<<>>, <<" ">>, <<"b">>, <<"l","e">>, <<"l","e","g","a","c","y","x">>,
     <<"q","q">>, <<" ","a",".","s"," ">>}

NextSuggest ==
    \/ \E query \in SuggestQueries : HandleSearchChange(query)
    \/ \E category \in Categories : HandleCategoryChange(category)
    \/ \E filter \in FileTypes : HandleFileTypeChange(filter)
    \/ \E value \in BOOLEAN : SetShowNewOnly(value)

SpecSuggest == InitSearch /\ [][NextSuggest]_vars

\* The positions of the records that match the query leniently, in the whole
\* list.
LenientHits ==
    {j \in 1..Len(ui.icons) :
        IconScore(ui.icons[j], ToLowerCase(Trim(ui.searchQuery))) <= 60}

\* The closest of them: the best score, the earliest in the list among equals.
TopHit ==
    CHOOSE j \in LenientHits :
        \A q \in LenientHits :
            LET sj == IconScore(ui.icons[j], ToLowerCase(Trim(ui.searchQuery)))
                sq == IconScore(ui.icons[q], ToLowerCase(Trim(ui.searchQuery)))
            IN  sj < sq \/ (sj = sq /\ j <= q)

\* The category names that match the query.
CategoryHits ==
    {c \in {ui.icons[j].category : j \in 1..Len(ui.icons)} :
        TextScore(c, ToLowerCase(Trim(ui.searchQuery)), 1) <= 40}

\* C23: suggestions are computed only when the primary search returned no
\* result for a non-blank query, and always over the entire unfiltered list:
\* if some record matches leniently, the suggestion is the file name of the
\* top match, and suggestedCategory is its category exactly when a category
\* is selected and differs from it; if no record matches, suggestion is null
\* and suggestedCategory is the closest matching category name, if any; if
\* nothing matches, both are null.
C23_SuggestionsFromWholeList ==
    IF Len(SearchResults) > 0 \/ Trim(ui.searchQuery) = <<>>
    THEN Suggestions = NoSuggestions
    ELSE IF LenientHits # {}
    THEN /\ Suggestions.suggestion = Some(ui.icons[TopHit].filename)
         /\ Suggestions.suggestedCategory =
               IF /\ ui.selectedCategory # NoCategory
                  /\ ui.icons[TopHit].category # ui.selectedCategory
               THEN Some(ui.icons[TopHit].category)
               ELSE Null
    ELSE IF CategoryHits # {}
    THEN /\ Suggestions.suggestion = Null
         /\ \E c \in CategoryHits :
               /\ \A d \in CategoryHits \ {c} : CodeUnitLess(c, d)
               /\ Suggestions.suggestedCategory = Some(c)
    ELSE Suggestions = NoSuggestions

\* The search inside a selected category found nothing, and the suggestion
\* names a record of another category together with that category.
C23_Witness ==
    /\ Len(SearchResults) = 0
    /\ ui.selectedCategory # NoCategory
    /\ Suggestions.suggestion # Null
    /\ Suggestions.suggestedCategory # Null
    /\ Suggestions.suggestedCategory # Some(ui.selectedCategory)

(***************************************************************************)
(* IconCard: the image of one card and its retry.                          *)
(***************************************************************************)
RETRY_DELAY == 2000

\* A card as mounted: not yet visible, nothing requested.  src is the src of
\* the img element, <<>> while there is none; pending: a request for src
\* awaits its outcome; timer: the setTimeout calls whose callback has not
\* run, each with the instant it was set at and its delay; requests, errors:
\* every URL requested and the instant of every error event, in order.
NewCard(icon) ==
    [ icon |-> icon, mounted |-> TRUE, isVisible |-> FALSE,
      imageLoaded |-> FALSE, imageError |-> FALSE, retryCount |-> 0,
      src |-> <<>>, pending |-> FALSE, timer |-> <<>>,
      requests |-> <<>>, errors |-> <<>> ]

\* The img element gets a src and the browser requests it.
Request(card, url) ==
    [card EXCEPT !.src = url, !.pending = TRUE, !.requests = Append(@, url)]

\* A handleError that gives up after the second retry.
handleErrorRetryingTwice(card, t) ==
    LET c == [card EXCEPT !.pending = FALSE, !.errors = Append(@, t)]
    IN  IF c.retryCount < 2
        THEN [c EXCEPT !.timer = Append(@, [setAt |-> t, delay |-> RETRY_DELAY])]
        ELSE [c EXCEPT !.imageError = TRUE, !.src = <<>>]

\* handleError() at the instant t: the request for src has failed.
handleError(card, t) ==
    LET c == [card EXCEPT !.pending = FALSE, !.errors = Append(@, t)]
    IN  IF c.retryCount < 1
        THEN [c EXCEPT !.timer = Append(@, [setAt |-> t, delay |-> RETRY_DELAY])]
        ELSE [c EXCEPT !.imageError = TRUE, !.src = <<>>]

\* The IntersectionObserver reports the card: the img is rendered with
\* src = icon.rawUrl.
CardBecomesVisible ==
    /\ ui.card.mounted /\ ~ui.card.isVisible
    /\ ui' = [ui EXCEPT !.card = Request([@ EXCEPT !.isVisible = TRUE], @.icon.rawUrl)]
    /\ UNCHANGED <<now, ticks, localStorage, fi, uncaught, frc, browser>>

\* onLoad
ImageLoads ==
    /\ ui.card.mounted /\ ui.card.pending
    /\ ui' = [ui EXCEPT !.card.pending = FALSE, !.card.imageLoaded = TRUE]
    /\ UNCHANGED <<now, ticks, localStorage, fi, uncaught, frc, browser>>

\* onError
ImageErrors ==
    /\ ui.card.mounted /\ ui.card.pending
    /\ ui' = [ui EXCEPT !.card = handleError(@, now)]
    /\ UNCHANGED <<now, ticks, localStorage, fi, uncaught, frc, browser>>

\* The callback of the setTimeout runs when its delay has passed: the count
\* goes up and, if the img is still there, it is given the retry URL.
RetryTimerFires ==
    /\ ui.card.timer # <<>>
    /\ now = ui.card.timer[1].setAt + ui.card.timer[1].delay
    /\ LET c == [ui.card EXCEPT !.timer = Tail(@),
                                !.retryCount = IF ui.card.mounted THEN @ + 1 ELSE @]
       IN  ui' = [ui EXCEPT !.card =
                    IF c.mounted /\ c.src # <<>>
                    THEN Request(c, c.icon.rawUrl \o <<"?retry=", now>>)
                    ELSE c]
    /\ UNCHANGED <<now, ticks, localStorage, fi, uncaught, frc, browser>>

\* The card leaves the page (another query, another filter): its img is gone
\* and with it any pending request; a timer that was set still runs.
CardUnmounts ==
    /\ ui.card.mounted
    /\ ui' = [ui EXCEPT !.card.mounted = FALSE, !.card.pending = FALSE,
                        !.card.src = <<>>]
    /\ UNCHANGED <<now, ticks, localStorage, fi, uncaught, frc, browser>>

\* Time passes by a second, never past the instant a timer is due.
CardTick ==
    /\ \A j \in 1..Len(ui.card.timer) :
          now + 1000 <= ui.card.timer[j].setAt + ui.card.timer[j].delay
    /\ Tick(1000)

\* A page with the card of one of two images, at one of three instants.
InitCard ==
    /\ now \in {0, 500, 1000}
    /\ ticks = 0
    /\ localStorage = <<>>
    /\ fi = [p \in Slots |-> IdleFrame]
    /\ uncaught = {}
    /\ frc = IdleRecent
    /\ browser = InitialBrowser
    /\ \E path \in {PathA, PathB} :
          ui = [card |-> NewCard(IconOf(Blob(path, 1), now))] @@ InitialUi

NextCard ==
    \/ CardBecomesVisible
    \/ ImageLoads
    \/ ImageErrors
    \/ RetryTimerFires
    \/ CardUnmounts
    \/ CardTick

SpecCard == InitCard /\ [][NextCard]_vars

\* C24: for each icon card the image is requested at most twice: the first
\* load error schedules exactly one retry after a fixed 2-second delay that
\* requests the same URL with a cache-busting query parameter, a second load
\* error puts the card in the failure state, and no third request is made.
C24_OneRetryAfterTwoSeconds ==
    LET card == ui.card
    IN  /\ Len(card.requests) <= 2
        /\ Len(card.errors) <= 2
        /\ Len(card.timer) <= 1
        /\ Len(card.requests) >= 1 => card.requests[1] = card.icon.rawUrl
        /\ Len(card.errors) >= 1 =>
              \/ /\ card.timer = <<[setAt |-> card.errors[1], delay |-> 2000]>>
                 /\ Len(card.requests) = 1
              \/ /\ card.timer = <<>>
                 /\ now >= card.errors[1] + 2000
                 /\ \/ Len(card.requests) = 1 /\ ~card.mounted
                    \/ /\ Len(card.requests) = 2
                       /\ card.requests[2] =
                             card.icon.rawUrl \o <<"?retry=", card.errors[1] + 2000>>
        /\ card.imageError <=> Len(card.errors) = 2
        /\ card.imageError => ~card.pending /\ card.timer = <<>>

\* The retry has failed as well: two requests, the second one two seconds
\* after the first error, and the card shows the failure.
C24_Witness ==
    /\ ui.card.imageError
    /\ Len(ui.card.requests) = 2
    /\ Len(ui.card.errors) = 2
    /\ ui.card.requests[2] # ui.card.requests[1]
    /\ ui.card.mounted

(***************************************************************************)
(* The stored envelope under overlapping invocations.                      *)
(***************************************************************************)
\* The paths of a list of records.
PathsOf(icons) == [j \in 1..Len(icons) |-> icons[j].path]

\* The list and the etag are those of one response: the response that
\* carried the tree of version v.
FromResponse(env, v) ==
    /\ PathsOf(env.icons) = PathsOf(parseIconFiles(Tree(v), 0))
    /\ StoredEtag(env) = EtagOf(v)

\* C25: in every reachable state, under any interleaving of fetchIcons
\* invocations and clearCache calls, the list and the etag of the stored
\* envelope come from one and the same response; an etag is never stored
\* with the list of another response, also when a 304 refresh overlaps the
\* full write of another invocation.
C25_ListAndEtagFromOneResponse ==
    HasEnvelope(localStorage) =>
        \E v \in Versions : FromResponse(localStorage[CACHE_KEY], v)

\* Two invocations began on the same envelope; one parsed and stored another
\* tree, the other was answered 304 afterwards and wrote back the envelope
\* it had read: the older list with its own etag.
C25_Witness ==
    \E p, q \in Slots :
        /\ p # q
        /\ fi[p].pc = "done" /\ fi[p].via = "304"
        /\ fi[q].pc = "done" /\ fi[q].via = "parsed"
        /\ fi[p].seen # <<>> /\ fi[q].seen = fi[p].seen
        /\ PathsOf(fi[q].result.icons) # PathsOf(fi[p].result.icons)
        /\ HasEnvelope(localStorage)
        /\ localStorage[CACHE_KEY].icons = fi[p].seen[1].icons
        /\ StoredEtag(localStorage[CACHE_KEY]) = StoredEtag(fi[p].seen[1])
        /\ localStorage[CACHE_KEY].timestamp > fi[p].seen[1].timestamp

(***************************************************************************)
(* Refresh and the commit cache.                                           *)
(***************************************************************************)
\* A loadIcons begins in this step: by the mount effect, the retry button or
\* handleRefresh.
LoadBegins == ~ui.pending /\ ui'.pending

\* handleRefresh runs in this step: clearCache sets the marker, then the load
\* begins.
RefreshBegins == LoadBegins /\ ~ui.loading /\ ui.error = Null

\* C26: clearCache and the force-revalidate marker have no effect on
\* fetchRecentChanges: with an unexpired commit cache, a refresh (clearCache
\* followed by a load), like any load that begins while the marker is set,
\* returns the cached recent-changes map, issues no commit-history and no
\* commit-detail request, and leaves the commit cache unchanged.
C26_RefreshLeavesCommitCache ==
    [][( /\ LoadBegins
         /\ RefreshBegins \/ MarkerSet(localStorage)
         /\ COMMITS_CACHE_KEY \in DOMAIN localStorage
         /\ now - localStorage[COMMITS_CACHE_KEY].timestamp <= CACHE_TTL )
          => /\ MarkerSet(localStorage')
             /\ frc'.pc = "done"
             /\ frc'.via = "cache"
             /\ frc'.attempt = 0
             /\ frc'.issued = 0
             /\ frc'.result =
                   ResolvedChanges(NewMap(localStorage[COMMITS_CACHE_KEY].changes))
             /\ COMMITS_CACHE_KEY \in DOMAIN localStorage'
             /\ localStorage'[COMMITS_CACHE_KEY] = localStorage[COMMITS_CACHE_KEY]]_vars

\* A refresh is under way: the marker is set and fetchIcons revalidates over
\* the network, while fetchRecentChanges has answered from its cache with a
\* non-empty map.
C26_Witness ==
    /\ ui.pending
    /\ MarkerSet(localStorage)
    /\ fi[1].pc = "fetch"
    /\ fi[1].seen # <<>>
    /\ now - fi[1].seen[1].timestamp <= CACHE_TTL
    /\ frc.pc = "done" /\ frc.via = "cache"
    /\ frc.result.changes # <<>>
    /\ COMMITS_CACHE_KEY \in DOMAIN localStorage

(***************************************************************************)
(* The fallback to the cached list.                                        *)
(***************************************************************************)
\* The invocation in slot p has ended in the catch block with the cached list.
FellBack(f) == f.pc = "done" /\ f.via = "catch" /\ f.result.ok

\* C27: when fetchIcons falls back to the cached icons after a failed fetch,
\* it leaves the stored envelope (timestamp, icons, etag) and the
\* force-revalidate marker exactly as they were, so that an expired or
\* force-flagged cache stays stale and the next fetchIcons attempts the
\* network again.
C27_FallbackLeavesCacheStale ==
    [][FellBack(fi'[1])
          => /\ ~FellBack(fi[1])
                => /\ localStorage' = localStorage
                   /\ fi'[1].result = Resolved(JSONparse(localStorage[CACHE_KEY]).icons)
             /\ HasEnvelope(localStorage')
             /\ localStorage'[CACHE_KEY] = fi'[1].seen[1]
             /\ \/ MarkerSet(localStorage')
                \/ now' - localStorage'[CACHE_KEY].timestamp > CACHE_TTL
             /\ LET next == FetchIconsEntry(localStorage', now')
                IN  /\ next.pc = "fetch"
                    /\ next.sent = <<StoredEtag(localStorage'[CACHE_KEY])>>]_vars

\* Both kinds of stale cache have fallen back: a force-flagged envelope after
\* the retries were used up, or an expired one.
C27_Witness ==
    /\ FellBack(fi[1])
    /\ Len(fi[1].sent) = MaxRetries
    /\ fi[1].result.icons # <<>>
    /\ MarkerSet(localStorage)
    /\ now - localStorage[CACHE_KEY].timestamp <= CACHE_TTL

(***************************************************************************)
(* What fetchRecentChanges persists.                                       *)
(***************************************************************************)
\* The history endpoint lists X alone or X before Y.
PersistListings == {<<CommitX>>, <<CommitX, CommitY>>}

\* fetchRecentChanges alone, every request may fail, the storage accepts
\* every write.
NextPersist ==
    \/ RecentChangesCall
    \/ \E resp \in CommitResponses : HistorySettles(resp)
    \/ RecentBackoffElapses
    \/ \E body \in HistoryBodies(PersistListings) : HistoryJsonSettles(body, TRUE)
    \/ \E resp \in CommitResponses : DetailSettles(resp, TRUE)
    \/ \E parses \in BOOLEAN : DetailJsonSettles(parses, TRUE)
    \/ RecentChangesReturn
    \/ \E d \in {1, CACHE_TTL} : Tick(d)

SpecPersist == Init /\ [][NextPersist]_vars

\* The invocation ends in this step.
RecentEnds == frc.pc # "done" /\ frc'.pc = "done"

\* C28: fetchRecentChanges persists its result map whenever the commit
\* history was obtained (the request succeeded and its listing was read),
\* also when some or all of the detail fetches failed and the map is partial
\* or empty, and persists nothing when the history request failed; a
\* persisted partial map is then returned from the cache without any network
\* request until its TTL expires.
C28_PartialMapIsPersisted ==
    [][/\ RecentEnds /\ frc.pc \in {"detail", "detailJson"}
          => frc'.via = "fetched"
       /\ RecentEnds /\ frc.pc \in {"history", "backoff"}
          => frc'.via = "catch"
       /\ RecentEnds /\ frc'.via = "fetched"
          => /\ COMMITS_CACHE_KEY \in DOMAIN localStorage'
             /\ localStorage'[COMMITS_CACHE_KEY] =
                   [timestamp |-> now, changes |-> frc'.result.changes]
             /\ frc'.result.changes = frc'.changes
       /\ RecentEnds /\ frc'.via = "catch"
          => /\ localStorage' = localStorage
             /\ frc'.result = ResolvedChanges(<<>>)
       /\ ( /\ RecentBegins
            /\ COMMITS_CACHE_KEY \in DOMAIN localStorage
            /\ now - localStorage[COMMITS_CACHE_KEY].timestamp <= CACHE_TTL )
          => /\ frc'.pc = "done"
             /\ frc'.via = "cache"
             /\ frc'.issued = 0
             /\ frc'.result =
                   ResolvedChanges(NewMap(localStorage[COMMITS_CACHE_KEY].changes))
             /\ localStorage' = localStorage]_vars

\* The detail of X failed, so that PathA carries Y's date; the partial map
\* was persisted and a later call, made before it expired, has answered with
\* it from the cache.
C28_Witness ==
    /\ frc.pc = "done" /\ frc.via = "cache"
    /\ frc.issued = 0
    /\ now > localStorage[COMMITS_CACHE_KEY].timestamp
    /\ MapKeys(frc.result.changes) = {PathA, PathB}
    /\ MapGet(frc.result.changes, PathA).date = CommitY.commit.author.date

(***************************************************************************)
(* Termination of loadIcons.                                               *)
(***************************************************************************)
\* The mount effect runs loadIcons once the component has rendered.
MountEffect == ui.loading /\ LoadIconsCall

\* response.json() of the listing settles; the write of the envelope may
\* throw.
ListingBodyRead == \E w \in BOOLEAN : JsonSettles(1, w)

\* detailResponse.json() settles.
DetailBodyRead == \E parses \in BOOLEAN : DetailJsonSettles(parses, TRUE)

\* A request that was sent gets its response or fails, the history body
\* parses or fails to, a backoff timer fires, or the continuation of the
\* settled Promise.all runs.
Completion ==
    \/ \E resp \in OverlapResponses(RequestHeader(fi[1])) : FetchSettles(1, resp, TRUE)
    \/ BackoffElapses(1)
    \/ \E resp \in CommitResponses : HistorySettles(resp)
    \/ RecentBackoffElapses
    \/ \E body \in HistoryBodies(ShortListings) : HistoryJsonSettles(body, TRUE)
    \/ \E resp \in CommitResponses : DetailSettles(resp, TRUE)
    \/ LoadIconsSettles

\* The application within the lifetime of its caches: loads, reloads after
\* an error, refreshes, and the completions of what they started.
NextLive ==
    \/ LoadIconsCall
    \/ HandleRefresh(TRUE)
    \/ Completion
    \/ ListingBodyRead
    \/ DetailBodyRead

\* The mount effect runs and no pending completion is put off forever.  The
\* last two conjuncts are WF_vars(ListingBodyRead) and
\* WF_vars(DetailBodyRead), with ENABLED written out: either action is
\* enabled exactly where the invocation stands at its await.
SpecLoadFair ==
    /\ Init
    /\ [][NextLive]_vars
    /\ WF_vars(MountEffect)
    /\ WF_vars(Completion)
    /\ []<>(fi[1].pc # "json") \/ []<><<ListingBodyRead>>_vars
    /\ []<>(frc.pc # "detailJson") \/ []<><<DetailBodyRead>>_vars

\* C29: assuming every network request eventually responds or fails, every
\* loadIcons run eventually sets loading to false, having either stored the
\* fetched icon list and the recent-changes map with the error left null, or
\* set a non-null error message without changing the icon list; loading is
\* never left true forever.
C29_LoadAlwaysEnds ==
    /\ ui.pending ~> ~ui.pending
    /\ ui.loading ~> ~ui.loading
    /\ [](ui.pending => ui.loading /\ ui.error = Null)
    /\ [][ui.pending /\ ~ui'.pending
            => /\ ~ui'.loading
               /\ IF ui'.error = Null
                  THEN /\ fi[1].pc = "done" /\ fi[1].result.ok
                       /\ frc.pc = "done" /\ frc.result.ok
                       /\ ui'.icons = fi[1].result.icons
                       /\ ui'.recentChanges = frc.result.changes
                  ELSE /\ ui'.icons = ui.icons
                       /\ ui'.recentChanges = ui.recentChanges]_vars

\* A second run has failed after a first one succeeded: loading is cleared,
\* the error is set and the list of the first run is still shown.
C29_Witness ==
    /\ ~ui.pending /\ ~ui.loading
    /\ ui.error # Null
    /\ ui.icons # <<>>
    /\ fi[1].pc = "done" /\ ~fi[1].result.ok
    /\ Len(fi[1].sent) = MaxRetries

(***************************************************************************)
(* App: keyboard navigation and load more.                                 *)
(***************************************************************************)
Minimum(a, b) == IF a < b THEN a ELSE b
Maximum(a, b) == IF a > b THEN a ELSE b

ARROW_KEYS == {"ArrowUp", "ArrowDown", "ArrowLeft", "ArrowRight"}

\* const cols = viewMode === 'list' ? 1 : window.innerWidth >= 1024 ? 4 : ...
Columns(viewMode, innerWidth) ==
    IF viewMode = "list" THEN 1
    ELSE IF innerWidth >= 1024 THEN 4
    ELSE IF innerWidth >= 768 THEN 3
    ELSE IF innerWidth >= 640 THEN 2
    ELSE 1

\* handleKeyDown(e) with e.key = key in a window innerWidth wide, on the
\* state u whose memoised search results are results: the state after it.
\* searchFocused: whether document.activeElement is the search input.
handleKeyDown(u, results, key, innerWidth) ==
    IF u.previewIndex # Null THEN u
    ELSE IF key = "/" /\ ~u.searchFocused
    THEN [u EXCEPT !.searchFocused = TRUE]
    ELSE IF key = "Escape"
    THEN [u EXCEPT !.searchQuery = IF u.searchFocused THEN <<>> ELSE @,
                   !.searchFocused = FALSE,
                   !.selectedIndex = -1]
    ELSE IF u.selectedIndex >= 0 \/ key \in ARROW_KEYS
    THEN LET totalItems == Minimum(u.visibleCount, Len(results))
             cols == Columns(u.viewMode, innerWidth)
             selectedIndex == u.selectedIndex
             newIndex ==
                 CASE key = "ArrowRight" ->
                        IF selectedIndex < 0 THEN 0
                        ELSE Minimum(selectedIndex + 1, totalItems - 1)
                   [] key = "ArrowLeft" -> Maximum(selectedIndex - 1, 0)
                   [] key = "ArrowDown" ->
                        IF selectedIndex < 0 THEN 0
                        ELSE Minimum(selectedIndex + cols, totalItems - 1)
                   [] key = "ArrowUp" -> Maximum(selectedIndex - cols, 0)
                   [] OTHER -> selectedIndex
         IN  [u EXCEPT !.selectedIndex = newIndex,
                       !.previewIndex =
                           IF key = "Enter" /\ selectedIndex >= 0
                                            /\ selectedIndex < Len(results)
                           THEN Some(selectedIndex) ELSE @]
    ELSE u

\* A key is pressed; the URL effect follows a change of the query.
KeyDown(key, innerWidth) ==
    /\ ui' = handleKeyDown(ui, SearchResults, key, innerWidth)
    /\ browser' = [browser EXCEPT !.search =
                      IF ui'.searchQuery # ui.searchQuery
                      THEN setUrlParams(ui'.searchQuery, ui.selectedCategory)
                      ELSE @]
    /\ UNCHANGED <<now, ticks, localStorage, fi, uncaught, frc>>

\* handleClosePreview()
HandleClosePreview ==
    /\ ui.previewIndex # Null
    /\ ui' = [ui EXCEPT !.previewIndex = Null]
    /\ UNCHANGED <<now, ticks, localStorage, fi, uncaught, frc, browser>>

\* onViewModeChange = setViewMode
SetViewMode(mode) ==
    /\ ui' = [ui EXCEPT !.viewMode = mode]
    /\ UNCHANGED <<now, ticks, localStorage, fi, uncaught, frc, browser>>

KEYS == ARROW_KEYS \cup {"/", "Escape", "Enter"}
WindowWidths == {500, 1024}

\* App after a load that has delivered one of the listings, nothing
\* selected, no preview open, the grid view.  Every listing is shorter than
\* a page, so that the load-more button is never shown.
InitKeys ==
    /\ now = 0
    /\ ticks = 0
    /\ localStorage = <<>>
    /\ fi = [p \in Slots |-> IdleFrame]
    /\ uncaught = {}
    /\ frc = IdleRecent
    /\ browser = InitialBrowser
    /\ \E tree \in SearchTrees :
          ui = [previewIndex |-> Null, viewMode |-> "grid", searchFocused |-> FALSE]
               @@ [InitialUi EXCEPT !.icons = parseIconFiles(tree, now),
                                    !.loading = FALSE]

NextKeys ==
    \/ \E key \in KEYS : \E innerWidth \in WindowWidths : KeyDown(key, innerWidth)
    \/ \E query \in {<<>>, <<"z">>} : HandleSearchChange(query)
    \/ \E category \in {NoCategory, <<"A">>} : HandleCategoryChange(category)
    \/ \E filter \in {ALL, SVG} : HandleFileTypeChange(filter)
    \/ \E value \in BOOLEAN : SetShowNewOnly(value)
    \/ HandleClosePreview
    \/ \E mode \in {"grid", "list"} : SetViewMode(mode)

SpecKeys == InitKeys /\ [][NextKeys]_vars

\* C30: in every reachable UI state, after any sequence of key presses,
\* query, category, file-type and new-only changes, load-more clicks and
\* reloads, selectedIndex is either -1 or a valid index of a currently
\* visible result: 0 <= selectedIndex < min(visibleCount, number of search
\* results).
C30_SelectedIndexIsVisible ==
    \/ ui.selectedIndex = -1
    \/ /\ 0 <= ui.selectedIndex
       /\ ui.selectedIndex < Minimum(ui.visibleCount, Len(SearchResults))

====
